---- MODULE Spec2Model ----
(***************************************************************************)
(* A model of the ScanPower MCP server (src/unnamed/part_002, the current  *)
(* index.ts): the OpenAPI loader, the operation compiler, the upstream     *)
(* client's session state and the list-tools / call-tool handlers.         *)
(*                                                                         *)
(* Strings the code manipulates character by character (paths, parameter   *)
(* names, operation ids, tokens) are sequences of one-character strings.   *)
(* JavaScript values that can be null, undefined or a string are records   *)
(* [t |-> "null"], [t |-> "undef"], [t |-> "str", s |-> chars].            *)
(***************************************************************************)
EXTENDS Integers, Sequences, FiniteSets, Bags, TLC

VARIABLES
    specSource,         \* process.env.SCANPOWER_OPENAPI_SPEC, by kind
    username,           \* apiClient.config.username
    password,           \* apiClient.config.password
    loadPc,             \* position of run() / loadOpenApiAndGenerateTools
    loadOutcome,        \* how loadOpenApiAndGenerateTools ended
    openApi,            \* this.openApi
    operationMap,       \* this.operationMap
    generatedTools,     \* this.generatedTools
    compiledFrom,       \* per listed tool, the (method, path) it was derived from
    isReady,            \* this.isReady
    apiToken,           \* apiClient.apiToken
    amazonAccessToken,  \* apiClient.amazonAccessToken
    proxyUserId,        \* apiClient.config.proxyUserId
    mintedFor,          \* the X-Proxy value of the exchange that cached apiToken
    inflight,           \* the call handler invocations suspended at an await
    started,            \* how many invocations the event loop has started
    last                \* the last handler invocation: its inputs, session
                        \* state before it, network events and response

vars == <<specSource, username, password, loadPc, loadOutcome, openApi,
          operationMap, generatedTools, compiledFrom, isReady, apiToken,
          amazonAccessToken, proxyUserId, mintedFor, inflight, started, last>>

-----------------------------------------------------------------------------
(* JavaScript values *)

Null == [t |-> "null"]
Undefined == [t |-> "undef"]
Str(s) == [t |-> "str", s |-> s]

\* JavaScript truthiness of a value (null, undefined and "" are falsy).
Truthy(v) == v.t = "str" /\ v.s /= <<>>

\* a ?? b
Coalesce(a, b) == IF a.t \in {"null", "undef"} THEN b ELSE a

\* a || b
OrElse(a, b) == IF Truthy(a) THEN a ELSE b

\* String(v)
ToChars(v) ==
    CASE v.t = "null" -> <<"n", "u", "l", "l">>
      [] v.t = "undef" -> <<"u", "n", "d", "e", "f", "i", "n", "e", "d">>
      [] OTHER -> v.s

\* obj[key] on a plain object
Get(obj, key) == IF key \in DOMAIN obj THEN obj[key] ELSE Undefined

EmptyObj == [k \in {} |-> Undefined]

\* obj with obj[key] = v
Put(obj, key, v) == [k \in DOMAIN obj \cup {key} |-> IF k = key THEN v ELSE obj[k]]

\* delete obj[key]
Delete(obj, key) == [k \in DOMAIN obj \ {key} |-> obj[k]]

-----------------------------------------------------------------------------
(* Strings as character sequences *)

Lowers == {"a", "b", "c", "d", "e", "f", "g", "h", "i", "j", "k", "l", "m",
           "n", "o", "p", "q", "r", "s", "t", "u", "v", "w", "x", "y", "z"}
Uppers == {"A", "B", "C", "D", "E", "F", "G", "H", "I", "J", "K", "L", "M",
           "N", "O", "P", "Q", "R", "S", "T", "U", "V", "W", "X", "Y", "Z"}
Digits == {"0", "1", "2", "3", "4", "5", "6", "7", "8", "9"}

\* [a-zA-Z0-9]
IsAlnum(c) == c \in Lowers \cup Uppers \cup Digits

\* s.startsWith(pre)
StartsWith(s, pre) == Len(s) >= Len(pre) /\ SubSeq(s, 1, Len(pre)) = pre

\* s.endsWith(suf)
EndsWith(s, suf) ==
    Len(s) >= Len(suf) /\ SubSeq(s, Len(s) - Len(suf) + 1, Len(s)) = suf

\* s.indexOf(pat) + 1 (0 when pat does not occur)
IndexOf(s, pat) ==
    LET hits == {i \in 1..(Len(s) - Len(pat) + 1) : SubSeq(s, i, i + Len(pat) - 1) = pat}
    IN IF hits = {} THEN 0 ELSE CHOOSE i \in hits : \A j \in hits : i <= j

\* s.includes(pat)
Contains(s, pat) == IndexOf(s, pat) /= 0

\* s.replace(pat, rep) with a string pattern: the first occurrence only
ReplaceFirst(s, pat, rep) ==
    LET i == IndexOf(s, pat)
    IN IF i = 0 THEN s
       ELSE SubSeq(s, 1, i - 1) \o rep \o SubSeq(s, i + Len(pat), Len(s))

\* p.replace(/[-.]/g, '_')
Sanitize(p) == [i \in 1..Len(p) |-> IF p[i] \in {"-", "."} THEN "_" ELSE p[i]]

\* pathKey.replace(/[^a-zA-Z0-9]+/g, '_')
RECURSIVE CollapseNonAlnum(_)
CollapseNonAlnum(s) ==
    IF s = <<>> THEN <<>>
    ELSE IF IsAlnum(Head(s)) THEN <<Head(s)>> \o CollapseNonAlnum(Tail(s))
    ELSE IF Len(s) > 1 /\ ~IsAlnum(s[2]) THEN CollapseNonAlnum(Tail(s))
    ELSE <<"_">> \o CollapseNonAlnum(Tail(s))

\* the characters encodeURIComponent leaves alone
Unreserved == Lowers \cup Uppers \cup Digits \cup {"-", "_", ".", "!", "~", "*", "'", "(", ")"}

\* the percent-encoding of one reserved character of the model's alphabet
PercentOf(c) ==
    CASE c = " " -> <<"%", "2", "0">>
      [] c = "/" -> <<"%", "2", "F">>
      [] c = "{" -> <<"%", "7", "B">>
      [] c = "}" -> <<"%", "7", "D">>
      [] c = "%" -> <<"%", "2", "5">>
      [] c = "$" -> <<"%", "2", "4">>

\* encodeURIComponent(s)
RECURSIVE EncodeURIComponent(_)
EncodeURIComponent(s) ==
    IF s = <<>> THEN <<>>
    ELSE (IF Head(s) \in Unreserved THEN <<Head(s)>> ELSE PercentOf(Head(s)))
         \o EncodeURIComponent(Tail(s))

\* s.trim()
RECURSIVE TrimLeft(_)
TrimLeft(s) == IF s /= <<>> /\ Head(s) = " " THEN TrimLeft(Tail(s)) ELSE s
RECURSIVE TrimRight(_)
TrimRight(s) ==
    IF s /= <<>> /\ s[Len(s)] = " " THEN TrimRight(SubSeq(s, 1, Len(s) - 1)) ELSE s
Trim(s) == TrimRight(TrimLeft(s))

\* c.toLowerCase() for the upper-case letters the model's scheme names use
LowerChar(c) ==
    CASE c = "B" -> "b"
      [] c = "A" -> "a"
      [] OTHER -> c

\* s.toLowerCase()
ToLower(s) == [i \in 1..Len(s) |-> LowerChar(s[i])]

-----------------------------------------------------------------------------
(* Names the code and the documents use *)

c_api_token == <<"a", "p", "i", "_", "t", "o", "k", "e", "n">>
c_proxy_user_id == <<"p", "r", "o", "x", "y", "_", "u", "s", "e", "r", "_", "i", "d">>
c_body == <<"b", "o", "d", "y">>
c_x_access_token == <<"x", "-", "a", "c", "c", "e", "s", "s", "-", "t", "o", "k", "e", "n">>
c_Authorization == <<"A", "u", "t", "h", "o", "r", "i", "z", "a", "t", "i", "o", "n">>
c_getProxyUsers == <<"g", "e", "t", "P", "r", "o", "x", "y", "U", "s", "e", "r", "s">>
c_account == <<"/", "a", "c", "c", "o", "u", "n", "t">>
c_cat == <<"c", "a", "t">>
c_getAccount == <<"g", "e", "t", "A", "c", "c", "o", "u", "n", "t">>
c_getV == <<"g", "e", "t", "V">>
c_getK == <<"g", "e", "t", "K">>
c_basic == <<"b", "a", "s", "i", "c">>
c_basic_auth == <<"b", "a", "s", "i", "c", "_", "a", "u", "t", "h">>
c_X_Proxy == <<"X", "-", "P", "r", "o", "x", "y">>
c_Bearer == <<"B", "e", "a", "r", "e", "r", " ">>

\* const methods = ['get', 'post', 'put', 'delete', 'patch']
methods == <<"get", "post", "put", "delete", "patch">>

\* the characters of a method name, for `${m}_...`
MethodChars(m) ==
    CASE m = "get" -> <<"g", "e", "t">>
      [] m = "post" -> <<"p", "o", "s", "t">>
      [] m = "put" -> <<"p", "u", "t">>
      [] m = "delete" -> <<"d", "e", "l", "e", "t", "e">>
      [] m = "patch" -> <<"p", "a", "t", "c", "h">>

\* m.toUpperCase()
MethodUpper(m) ==
    CASE m = "get" -> "GET"
      [] m = "post" -> "POST"
      [] m = "put" -> "PUT"
      [] m = "delete" -> "DELETE"
      [] m = "patch" -> "PATCH"

-----------------------------------------------------------------------------
(* OpenAPI documents: the inputs of the loader *)

\* a parameter object {name, in, required}
Param(name, loc, req) == [ref |-> "", name |-> name, in |-> loc, required |-> req]

\* a reference object {$ref: '#/components/parameters/<key>'}
Ref(key) == [ref |-> key, name |-> <<>>, in |-> "", required |-> FALSE]

NoSecurity == [present |-> FALSE, groups |-> <<>>]
Security(groups) == [present |-> TRUE, groups |-> groups]
\* requestBody: absent, or {required, content} with the media types of content
NoBody == [present |-> FALSE, required |-> FALSE, content |-> {}]
Body(content) == [present |-> TRUE, required |-> TRUE, content |-> content]
OptionalBody(content) == [present |-> TRUE, required |-> FALSE, content |-> content]

\* an operation object
Operation(id, params, body, sec) ==
    [operationId |-> id, parameters |-> params, requestBody |-> body, security |-> sec]

\* a path item: its key in paths, its own parameters, its operations by method
PathItem(key, params, ops) == [key |-> key, parameters |-> params, ops |-> ops]

s_jwt == <<"j", "w", "t">>
s_key == <<"k", "e", "y">>
s_BasicKey == <<"B", "a", "s", "i", "c", "K", "e", "y">>
s_basic_legacy == <<"b", "a", "s", "i", "c", "_", "l", "e", "g", "a", "c", "y">>

\* components.securitySchemes shared by the documents
Schemes ==
    [n \in {s_jwt, c_basic_auth, s_key, s_BasicKey} |->
        CASE n = s_jwt -> [type |-> "http", scheme |-> "bearer"]
          [] n = c_basic_auth -> [type |-> "http", scheme |-> "basic"]
          [] n = s_key -> [type |-> "apiKey", scheme |-> ""]
          [] n = s_BasicKey -> [type |-> "apiKey", scheme |-> ""]]

n_id == <<"i", "d">>
n_plan == <<"p", "-", "i", "d">>
n_q == <<"q", ".", "r">>
n_proxy == <<"p", "r", "o", "x", "y">>
n_api_dash == <<"a", "p", "i", "-", "t", "o", "k", "e", "n">>

\* components.parameters shared by the documents
ComponentParameters == [k \in {"PlanId"} |-> Param(n_plan, "path", TRUE)]

Document(paths, sec) ==
    [paths |-> paths, security |-> sec, securitySchemes |-> Schemes,
     parameters |-> ComponentParameters]

\* GET /w/{id} (bearer) and GET /token with an Authorization header parameter (basic)
DocWidgets ==
    Document(<<
        PathItem(<<"/", "w", "/", "{", "i", "d", "}">>, <<>>,
            [m \in {"get"} |->
                Operation(<<"g", "e", "t", "W">>, <<Param(n_id, "path", TRUE)>>,
                          NoBody, Security(<<<<s_jwt>>>>))]),
        PathItem(<<"/", "t", "o", "k", "e", "n">>, <<>>,
            [m \in {"get"} |->
                Operation(<<"g", "e", "t", "T">>, <<Param(c_Authorization, "header", FALSE)>>,
                          NoBody, Security(<<<<c_basic_auth>>>>))])
    >>, NoSecurity)

\* GET /m with bearer and basic in one requirement group
DocMixed ==
    Document(<<
        PathItem(<<"/", "m">>, <<>>,
            [m \in {"get"} |->
                Operation(<<"g", "e", "t", "M">>, <<>>,
                          NoBody, Security(<<<<s_jwt, c_basic_auth>>>>))])
    >>, NoSecurity)

\* GET /account (getProxyUsers) under the document's default bearer security
DocAccounts ==
    Document(<<
        PathItem(c_account, <<>>,
            [m \in {"get"} |->
                Operation(c_getProxyUsers, <<Param(n_proxy, "query", FALSE)>>,
                          NoBody, NoSecurity)])
    >>, Security(<<<<s_jwt>>>>))

\* GET /account/{id} (getAccount) under the document's default bearer security
DocDelegated ==
    Document(<<
        PathItem(c_account \o <<"/", "{", "i", "d", "}">>, <<>>,
            [m \in {"get"} |->
                Operation(c_getAccount, <<Param(n_id, "path", TRUE)>>, NoBody, NoSecurity)])
    >>, Security(<<<<s_jwt>>>>))

\* GET /cat/ with a required x-access-token header (bearer)
DocCatalog ==
    Document(<<
        PathItem(<<"/", "c", "a", "t", "/">>, <<>>,
            [m \in {"get"} |->
                Operation(c_cat, <<Param(c_x_access_token, "header", TRUE)>>,
                          NoBody, Security(<<<<s_jwt>>>>))])
    >>, NoSecurity)

\* GET /v/{id} (getV) with an optional x-access-token header, unsecured
DocVendor ==
    Document(<<
        PathItem(<<"/", "v", "/", "{", "i", "d", "}">>, <<>>,
            [m \in {"get"} |->
                Operation(c_getV, <<Param(n_id, "path", TRUE),
                                    Param(c_x_access_token, "header", FALSE)>>,
                          NoBody, NoSecurity)])
    >>, NoSecurity)

\* path templates that break the one-placeholder-per-path-parameter rule
DocPlaceholders ==
    Document(<<
        PathItem(<<"/", "x", "/", "{", "i", "d", "}", "/", "{", "i", "d", "}">>, <<>>,
            [m \in {"get"} |->
                Operation(<<>>, <<Param(n_id, "path", TRUE)>>, NoBody, NoSecurity)]),
        PathItem(<<"/", "z", "/", "{", "k", "}">>, <<>>,
            [m \in {"get"} |-> Operation(<<"g", "e", "t", "Z">>, <<>>, NoBody, NoSecurity)]),
        PathItem(<<"/", "t", "/", "{", "a", "p", "i", "-", "t", "o", "k", "e", "n", "}">>, <<>>,
            [m \in {"get"} |->
                Operation(<<"g", "e", "t", "A">>, <<Param(n_api_dash, "path", TRUE)>>,
                          NoBody, NoSecurity)])
    >>, NoSecurity)

\* two operations with one declared id, two with one synthesized id
DocCollisions ==
    Document(<<
        PathItem(<<"/", "a", "-", "b">>, <<>>,
            [m \in {"get"} |-> Operation(<<>>, <<>>, NoBody, NoSecurity)]),
        PathItem(<<"/", "a", ".", "b">>, <<>>,
            [m \in {"get"} |-> Operation(<<>>, <<>>, NoBody, NoSecurity)]),
        PathItem(<<"/", "c">>, <<>>,
            [m \in {"get", "post"} |->
                Operation(<<"d", "u", "p">>, <<>>,
                          IF m = "post" THEN Body({"application/json"}) ELSE NoBody,
                          NoSecurity)])
    >>, NoSecurity)

\* PUT /p/{p-id}/ with a referenced path-level parameter, a required query
\* parameter and a JSON body
DocPlans ==
    Document(<<
        PathItem(<<"/", "p", "/", "{", "p", "-", "i", "d", "}", "/">>, <<Ref("PlanId")>>,
            [m \in {"put"} |->
                Operation(<<"p", "u", "t", "P">>, <<Param(n_q, "query", TRUE)>>,
                          Body({"application/json"}), Security(<<<<s_jwt>>>>))])
    >>, NoSecurity)

\* POST /f with a required text body, POST /g with an optional body in JSON
\* or text, both bearer-secured
DocBodies ==
    Document(<<
        PathItem(<<"/", "f">>, <<>>,
            [m \in {"post"} |->
                Operation(<<"p", "o", "s", "t", "F">>, <<>>, Body({"text/plain"}),
                          Security(<<<<s_jwt>>>>))]),
        PathItem(<<"/", "g">>, <<>>,
            [m \in {"post"} |->
                Operation(<<"p", "o", "s", "t", "G">>, <<>>,
                          OptionalBody({"application/json", "text/plain"}),
                          Security(<<<<s_jwt>>>>))])
    >>, NoSecurity)

\* operations with alternative security requirement groups (the first with
\* an optional query parameter q.r), and with first
\* groups of an apiKey scheme, of an apiKey scheme named after basic, and of a
\* scheme the registry does not have
DocAlternatives ==
    Document(<<
        PathItem(<<"/", "k">>, <<>>,
            [m \in {"get"} |->
                Operation(c_getK, <<Param(n_q, "query", FALSE)>>, NoBody,
                          Security(<<<<s_key>>, <<s_jwt>>>>))]),
        PathItem(<<"/", "b">>, <<>>,
            [m \in {"get"} |->
                Operation(<<"g", "e", "t", "B">>, <<>>, NoBody,
                          Security(<<<<s_jwt>>, <<c_basic_auth>>>>))]),
        PathItem(<<"/", "n">>, <<>>,
            [m \in {"get"} |->
                Operation(<<"g", "e", "t", "N">>, <<>>, NoBody,
                          Security(<<<<s_BasicKey>>>>))]),
        PathItem(<<"/", "u">>, <<>>,
            [m \in {"get"} |->
                Operation(<<"g", "e", "t", "U">>, <<>>, NoBody,
                          Security(<<<<s_basic_legacy>>, <<c_basic_auth>>>>))])
    >>, NoSecurity)

Documents ==
    {DocWidgets, DocMixed, DocAccounts, DocCatalog, DocPlaceholders, DocCollisions, DocPlans,
     DocAlternatives, DocDelegated, DocBodies, DocVendor}

-----------------------------------------------------------------------------
(* The operation compiler: generateFromCurrentOpenApi *)

\* the operations of one path item, in the order of `methods`
RECURSIVE OpsOfPath(_, _)
OpsOfPath(item, ms) ==
    IF ms = <<>> THEN <<>>
    ELSE (IF Head(ms) \in DOMAIN item.ops
          THEN <<[pathKey |-> item.key, pathItem |-> item, m |-> Head(ms),
                  op |-> item.ops[Head(ms)]]>>
          ELSE <<>>)
         \o OpsOfPath(item, Tail(ms))

\* for (const pathKey of Object.keys(paths)) for (const m of methods)
RECURSIVE DocOperations(_)
DocOperations(paths) ==
    IF paths = <<>> THEN <<>>
    ELSE OpsOfPath(Head(paths), methods) \o DocOperations(Tail(paths))

\* op.operationId || `${m}_${pathKey.replace(/[^a-zA-Z0-9]+/g, '_')}`
OperationIdOf(e) ==
    IF e.op.operationId /= <<>> THEN e.op.operationId
    ELSE MethodChars(e.m) \o <<"_">> \o CollapseNonAlnum(e.pathKey)

\* a $ref parameter resolved through the document root (resolved || p)
ResolveParam(doc, p) ==
    IF p.ref /= "" /\ p.ref \in DOMAIN doc.parameters THEN doc.parameters[p.ref] ELSE p

\* [...(pathItem.parameters || []), ...(op.parameters || [])].map(resolve)
ParamsOf(doc, e) ==
    LET raw == e.pathItem.parameters \o e.op.parameters
    IN [i \in 1..Len(raw) |-> ResolveParam(doc, raw[i])]

\* params.filter(p => p.in === loc)
ParamDefs(params, loc) == SelectSeq(params, LAMBDA p : p.in = loc)

\* params.filter(p => p.in === loc).map(p => p.name)
ParamNames(params, loc) ==
    LET defs == ParamDefs(params, loc) IN [i \in 1..Len(defs) |-> defs[i].name]

Range(seq) == {seq[i] : i \in 1..Len(seq)}

\* requiresBody: the request body's content map has the key application/json
RequiresBody(op) ==
    op.requestBody.present /\ "application/json" \in op.requestBody.content

\* pathHasTrailingSlash, with the override for getProxyUsers at /account
PathHasTrailingSlash(pathKey, operationId) ==
    \/ EndsWith(pathKey, <<"/">>)
    \/ (pathKey = c_account /\ operationId = c_getProxyUsers)

\* op.security || this.openApi.security || []
SecurityOf(doc, op) ==
    IF op.security.present THEN op.security.groups
    ELSE IF doc.security.present THEN doc.security.groups
    ELSE <<>>

\* the entry opMap.set(operationId, {...}) stores
OperationDescriptor(doc, e) ==
    LET params == ParamsOf(doc, e) IN
    [method |-> MethodUpper(e.m),
     path |-> e.pathKey,
     pathHasTrailingSlash |-> PathHasTrailingSlash(e.pathKey, OperationIdOf(e)),
     pathParams |-> ParamNames(params, "path"),
     queryParams |-> ParamNames(params, "query"),
     headerParams |-> ParamNames(params, "header"),
     paramDefs |-> [path |-> ParamDefs(params, "path"),
                    query |-> ParamDefs(params, "query"),
                    header |-> ParamDefs(params, "header")],
     security |-> SecurityOf(doc, e.op),
     bodyRequired |-> RequiresBody(e.op),
     useBasicAuth |-> "undefined"]

\* inputSchemaProps: later assignments to one key replace earlier ones
InputSchemaProps(doc, e) ==
    LET params == ParamsOf(doc, e)
        pathKeys == {Sanitize(n) : n \in Range(ParamNames(params, "path"))}
        queryKeys == {Sanitize(n) : n \in Range(ParamNames(params, "query"))}
        headerKeys == {Sanitize(n) : n \in Range(ParamNames(params, "header"))}
        bodyKeys == IF RequiresBody(e.op) THEN {c_body} ELSE {}
    IN [k \in pathKeys \cup queryKeys \cup headerKeys \cup bodyKeys \cup {c_api_token} |->
           IF k = c_api_token THEN "api_token"
           ELSE IF k \in bodyKeys THEN "body"
           ELSE IF k \in headerKeys THEN "string"
           ELSE IF k \in queryKeys THEN "any"
           ELSE "string"]

\* variant of ToolDescriptor: required also lists the parameters of other
\* locations that the document marks required
ToolDescriptorAllRequired(doc, e) ==
    LET params == SelectSeq(ParamsOf(doc, e), LAMBDA q : q.in = "path" \/ q.required)
        required == [i \in 1..Len(params) |-> Sanitize(params[i].name)]
    IN [name |-> OperationIdOf(e),
        properties |-> InputSchemaProps(doc, e),
        required |-> IF required /= <<>> THEN [present |-> TRUE, names |-> required]
                     ELSE [present |-> FALSE, names |-> <<>>]]

\* the tool tools.push({...}) appends
ToolDescriptor(doc, e) ==
    LET names == ParamNames(ParamsOf(doc, e), "path")
        required == [i \in 1..Len(names) |-> Sanitize(names[i])]
    IN [name |-> OperationIdOf(e),
        properties |-> InputSchemaProps(doc, e),
        required |-> IF required /= <<>> THEN [present |-> TRUE, names |-> required]
                     ELSE [present |-> FALSE, names |-> <<>>]]

\* tools after the loop
CompileTools(doc) ==
    LET es == DocOperations(doc.paths) IN [i \in 1..Len(es) |-> ToolDescriptor(doc, es[i])]

\* opMap after the loop: a later set() of one key replaces the earlier entry
CompileOpMap(doc) ==
    LET es == DocOperations(doc.paths)
        ids == {OperationIdOf(es[i]) : i \in 1..Len(es)}
        lastOf(id) == CHOOSE i \in 1..Len(es) :
                          /\ OperationIdOf(es[i]) = id
                          /\ \A j \in 1..Len(es) : OperationIdOf(es[j]) = id => j <= i
    IN [id \in ids |-> OperationDescriptor(doc, es[lastOf(id)])]

\* per tool of CompileTools, the operation of the document it was derived from
CompileOrigins(doc) ==
    LET es == DocOperations(doc.paths)
    IN [i \in 1..Len(es) |-> [method |-> MethodUpper(es[i].m), path |-> es[i].pathKey]]

-----------------------------------------------------------------------------
(* The dispatcher: the CallToolRequestSchema handler, stage by stage *)

\* typeof proxy_user_id === 'string' && proxy_user_id.trim().length > 0
ProxyArgGiven(args) ==
    LET v == Get(args, c_proxy_user_id) IN v.t = "str" /\ Len(Trim(v.s)) > 0

\* variant of ProxyAfter: the argument is stored without trim()
ProxyAfterUntrimmed(args, proxy) ==
    IF ProxyArgGiven(args) THEN Get(args, c_proxy_user_id) ELSE proxy

\* config.proxyUserId after the handler's first statement
ProxyAfter(args, proxy) ==
    IF ProxyArgGiven(args) THEN Str(Trim(Get(args, c_proxy_user_id).s)) ELSE proxy

\* the early return: proxy_user_id given and name === 'getProxyUsers'
ShortCircuits(name, args) == ProxyArgGiven(args) /\ name = c_getProxyUsers

\* argsOrEmpty[p] ?? argsOrEmpty[p.replace(/[-.]/g, '_')]
ArgOf(args, p) == Coalesce(Get(args, p), Get(args, Sanitize(p)))

\* (op.paramDefs?.[loc] || []).find(pd => pd.name === p)?.required
DefRequired(defs, p) ==
    LET hits == {i \in 1..Len(defs) : defs[i].name = p}
    IN hits /= {} /\ defs[CHOOSE i \in hits : \A j \in hits : i <= j].required

\* the loop over op.pathParams, then the trailing-slash restoration
RECURSIVE SubstitutePath(_, _, _)
SubstitutePath(url, ps, args) ==
    IF ps = <<>> THEN url
    ELSE LET v == ArgOf(args, Head(ps))
         IN SubstitutePath(
                IF v.t = "undef" THEN url
                ELSE ReplaceFirst(url, <<"{">> \o Head(ps) \o <<"}">>,
                                  EncodeURIComponent(ToChars(v))),
                Tail(ps), args)

\* variant of BuildUrl: the URL is normalised without its trailing slash
BuildUrlNormalized(op, args) ==
    LET url == SubstitutePath(op.path, op.pathParams, args)
    IN IF Len(url) > 1 /\ EndsWith(url, <<"/">>) THEN SubSeq(url, 1, Len(url) - 1) ELSE url

BuildUrl(op, args) ==
    LET url == SubstitutePath(op.path, op.pathParams, args)
    IN IF op.pathHasTrailingSlash /\ ~EndsWith(url, <<"/">>) THEN url \o <<"/">> ELSE url

\* variant of MissingPath: the names are pushed as declared
MissingPathRaw(op, args) ==
    SelectSeq(op.pathParams, LAMBDA p : ArgOf(args, p).t = "undef")

\* the path parameters pushed to missingInputs, by sanitized name
MissingPath(op, args) ==
    LET miss == SelectSeq(op.pathParams, LAMBDA p : ArgOf(args, p).t = "undef")
    IN [i \in 1..Len(miss) |-> Sanitize(miss[i])]

\* variant of BuildQuery: the argument under the sanitized name comes first
RECURSIVE BuildQuerySanitizedFirst(_, _, _)
BuildQuerySanitizedFirst(acc, qs, args) ==
    IF qs = <<>> THEN acc
    ELSE LET v == Coalesce(Get(args, Sanitize(Head(qs))), Get(args, Head(qs)))
         IN BuildQuerySanitizedFirst(IF v.t /= "undef" THEN Put(acc, Head(qs), v) ELSE acc,
                                     Tail(qs), args)

\* queryParams after the loop over op.queryParams
RECURSIVE BuildQuery(_, _, _)
BuildQuery(acc, qs, args) ==
    IF qs = <<>> THEN acc
    ELSE LET v == ArgOf(args, Head(qs))
         IN BuildQuery(IF v.t /= "undef" THEN Put(acc, Head(qs), v) ELSE acc, Tail(qs), args)

\* variant of MissingQuery: every absent query parameter is pushed
MissingQueryAll(op, args) ==
    LET miss == SelectSeq(op.queryParams, LAMBDA q : ArgOf(args, q).t = "undef")
    IN [i \in 1..Len(miss) |-> Sanitize(miss[i])]

\* the query parameters pushed to missingInputs
MissingQuery(op, args) ==
    LET miss == SelectSeq(op.queryParams,
                    LAMBDA q : ArgOf(args, q).t = "undef" /\ DefRequired(op.paramDefs.query, q))
    IN [i \in 1..Len(miss) |-> Sanitize(miss[i])]

\* variant of NeedsVendorToken: the cached vendor token is not consulted
NeedsVendorTokenAlways(op, args, amazon) ==
    \E i \in 1..Len(op.headerParams) :
        /\ op.headerParams[i] = c_x_access_token
        /\ ~Truthy(ArgOf(args, op.headerParams[i]))

\* the header loop fetches a vendor token: an x-access-token header parameter
\* without a truthy argument while none is cached
NeedsVendorToken(op, args, amazon) ==
    \E i \in 1..Len(op.headerParams) :
        /\ op.headerParams[i] = c_x_access_token
        /\ ~Truthy(ArgOf(args, op.headerParams[i]))
        /\ ~Truthy(amazon)

\* outcomes of one awaited network call
NotCalled == [called |-> FALSE, ok |-> FALSE, value |-> Undefined]
Failed == [called |-> TRUE, ok |-> FALSE, value |-> Undefined]
Returned(v) == [called |-> TRUE, ok |-> TRUE, value |-> v]

\* getAmazonAccessToken: this.amazonAccessToken after the call (a failure is
\* swallowed by the caller and leaves the field alone)
AmazonAfter(amazon, fetch) == IF fetch.called /\ fetch.ok THEN fetch.value ELSE amazon

\* the value the header loop uses for header h
HeaderValue(args, h, amazon) ==
    LET val == ArgOf(args, h)
    IN IF h = c_x_access_token /\ ~Truthy(val) THEN amazon ELSE val

\* headers after the loop over op.headerParams
RECURSIVE BuildHeaders(_, _, _, _)
BuildHeaders(acc, hs, args, amazon) ==
    IF hs = <<>> THEN acc
    ELSE LET v == HeaderValue(args, Head(hs), amazon)
         IN BuildHeaders(IF v.t /= "undef" THEN Put(acc, Head(hs), v) ELSE acc,
                         Tail(hs), args, amazon)

\* the header parameters pushed to missingInputs
MissingHeaders(op, args, amazon) ==
    LET miss == SelectSeq(op.headerParams,
                    LAMBDA h : HeaderValue(args, h, amazon).t = "undef"
                               /\ DefRequired(op.paramDefs.header, h))
    IN [i \in 1..Len(miss) |-> Sanitize(miss[i])]

\* 'body' pushed to missingInputs
MissingBody(op, args) ==
    IF op.bodyRequired /\ Get(args, c_body).t = "undef" THEN <<c_body>> ELSE <<>>

\* variant of FilteredMissing: the missing-input check lets every call pass
FilteredMissingNone(op, args, amazon) == <<>>

\* filteredMissing: missingInputs without the name api_token
FilteredMissing(op, args, amazon) ==
    SelectSeq(MissingPath(op, args) \o MissingQuery(op, args)
              \o MissingHeaders(op, args, amazon) \o MissingBody(op, args),
              LAMBDA n : n /= c_api_token)

\* the attempted request as the handler has built it before security
BuiltRequest(op, args, amazon) ==
    [method |-> op.method,
     url |-> BuildUrl(op, args),
     params |-> BuildQuery(EmptyObj, op.queryParams, args),
     data |-> Get(args, c_body),
     headers |-> BuildHeaders(EmptyObj, op.headerParams, args, amazon),
     auth |-> Undefined]

-----------------------------------------------------------------------------
(* Security resolution *)

\* String(x || '').toLowerCase() for the scheme fields the documents use
LowerWord(w) ==
    CASE w = "HTTP" -> "http"
      [] w = "Bearer" -> "bearer"
      [] w = "Basic" -> "basic"
      [] OTHER -> w

\* the first loop's test on one scheme name of the requirement
IsBasicScheme(doc, n) ==
    /\ n \in DOMAIN doc.securitySchemes
    /\ \/ /\ LowerWord(doc.securitySchemes[n].type) \in {"http", "https"}
          /\ LowerWord(doc.securitySchemes[n].scheme) = "basic"
       \/ Contains(ToLower(n), c_basic)

\* the second loop's test on one scheme name of the requirement
IsBearerScheme(doc, n) ==
    /\ n \in DOMAIN doc.securitySchemes
    /\ LowerWord(doc.securitySchemes[n].type) \in {"http", "https"}
    /\ LowerWord(doc.securitySchemes[n].scheme) = "bearer"

\* variant of UseBasicAuth: every requirement group is searched
UseBasicAuthAnyGroup(doc, op) ==
    \E g \in 1..Len(op.security) :
        \E i \in 1..Len(op.security[g]) : IsBasicScheme(doc, op.security[g][i])

\* useBasicAuth after the first loop over security[0]
UseBasicAuth(doc, op) ==
    /\ op.security /= <<>>
    /\ \E i \in 1..Len(op.security[1]) : IsBasicScheme(doc, op.security[1][i])

\* the second loop reaches a bearer scheme
UsesBearer(doc, op) ==
    /\ op.security /= <<>>
    /\ ~UseBasicAuth(doc, op)
    /\ \E i \in 1..Len(op.security[1]) : IsBearerScheme(doc, op.security[1][i])

\* variant of ResolveToken: the cached token comes before the argument
ResolveTokenCachedFirst(args, token) == OrElse(token, Get(args, c_api_token))

\* argsOrEmpty.api_token || this.apiClient['apiToken']
ResolveToken(args, token) == OrElse(Get(args, c_api_token), token)

\* variant of NeedsAuthenticate: the cached token is not consulted
NeedsAuthenticateAlways(doc, op, args, token) ==
    UsesBearer(doc, op) /\ ~Truthy(Get(args, c_api_token))

\* if (!token) await this.apiClient.authenticate()
NeedsAuthenticate(doc, op, args, token) ==
    UsesBearer(doc, op) /\ ~Truthy(ResolveToken(args, token))

\* variant of ApiTokenAfter: a token serves the invocation that obtained it only
ApiTokenAfterExpiring(token, exchange) ==
    IF exchange.called /\ exchange.ok THEN exchange.value ELSE Null

\* authenticate(): this.apiToken after the call (it throws on failure)
ApiTokenAfter(token, exchange) ==
    IF exchange.called /\ exchange.ok THEN exchange.value ELSE token

\* variant of SecuredHeaders: the basic branch leaves Authorization in place
SecuredHeadersKeep(doc, op, args, token, headers) ==
    IF UseBasicAuth(doc, op) THEN headers
    ELSE IF UsesBearer(doc, op)
         THEN Put(headers, c_Authorization, Str(c_Bearer \o ToChars(ResolveToken(args, token))))
    ELSE headers

\* headers after the security block
SecuredHeaders(doc, op, args, token, headers) ==
    IF UseBasicAuth(doc, op) THEN Delete(headers, c_Authorization)
    ELSE IF UsesBearer(doc, op)
         THEN Put(headers, c_Authorization, Str(c_Bearer \o ToChars(ResolveToken(args, token))))
    ELSE headers

\* variant of SecurityError: a token that resolves to nothing is no error
SecurityErrorLenient(doc, op, args, token, exchange, user, pass) ==
    IF exchange.called /\ ~exchange.ok THEN "Authentication failed"
    ELSE IF UseBasicAuth(doc, op) /\ (user = <<>> \/ pass = <<>>)
         THEN "SCANPOWER_USERNAME and SCANPOWER_PASSWORD are required for basic authentication"
    ELSE ""

\* the error the security block or the credential check throws, "" if none
SecurityError(doc, op, args, token, exchange, user, pass) ==
    IF exchange.called /\ ~exchange.ok THEN "Authentication failed"
    ELSE IF UsesBearer(doc, op) /\ ~Truthy(ResolveToken(args, ApiTokenAfter(token, exchange)))
         THEN "Missing bearer token (api_token)"
    ELSE IF UseBasicAuth(doc, op) /\ (user = <<>> \/ pass = <<>>)
         THEN "SCANPOWER_USERNAME and SCANPOWER_PASSWORD are required for basic authentication"
    ELSE ""

\* variant of AuthOption: the static credentials are never attached
AuthOptionNone(basic, err, user, pass) == Undefined

\* variant of AuthOption: credentials once sent stay attached to later requests
AuthOptionSticky(basic, err, user, pass) ==
    IF err = "" /\ (basic \/ last.out.request.auth /= Undefined)
    THEN [username |-> user, password |-> pass]
    ELSE Undefined

\* axiosConfig.auth: the static credentials when Basic is selected and both
\* are set, otherwise absent
AuthOption(basic, err, user, pass) ==
    IF basic /\ err = "" THEN [username |-> user, password |-> pass] ELSE Undefined

\* op.useBasicAuth = useBasicAuth is reached unless the bearer block threw
WritesFlag(err) == err \notin {"Authentication failed", "Missing bearer token (api_token)"}

FlagOf(b) == IF b THEN "true" ELSE "false"

-----------------------------------------------------------------------------
(* The handler's result *)

\* an Error's message: fixed text and the tool name interpolated into it
Msg(text) == [text |-> text, name |-> <<>>]
MsgAbout(text, name) == [text |-> text, name |-> name]

NoRequest ==
    [method |-> "", url |-> <<>>, params |-> EmptyObj, data |-> Undefined,
     headers |-> EmptyObj, auth |-> Undefined]

\* what one invocation did: response, network calls in order, session after
Outcome(kind, isError, message, requires, request, net, proxy, amazon, token, flag) ==
    [kind |-> kind, isError |-> isError, message |-> message, requires |-> requires,
     request |-> request, net |-> net, proxy |-> proxy, amazon |-> amazon,
     token |-> token, flag |-> flag]

\* variant of RequestDetails: the Authorization header is reduced to its
\* scheme, as the request log does
RequestDetailsMasked(name, args, request) ==
    [toolName |-> name,
     arguments |-> args,
     axiosConfig |-> [method |-> request.method,
                      url |-> request.url,
                      params |-> IF DOMAIN request.params = {} THEN Undefined
                                 ELSE request.params,
                      data |-> request.data,
                      headers |-> [h \in DOMAIN request.headers |->
                                      IF h = c_Authorization THEN Str(c_Bearer)
                                      ELSE request.headers[h]]]]

\* requestDetails, which the catch block serialises into the text of the
\* error result: the tool name, the arguments and the request as far as the
\* handler had built it (axiosConfig.auth is not part of it)
RequestDetails(name, args, request) ==
    [toolName |-> name,
     arguments |-> args,
     axiosConfig |-> [method |-> request.method,
                      url |-> request.url,
                      params |-> IF DOMAIN request.params = {} THEN Undefined
                                 ELSE request.params,
                      data |-> request.data,
                      headers |-> request.headers]]

\* variant of CatchBlock: a failure discards the cached bearer token
CatchBlockClearsToken(opKnown, msg, request, net, proxy, amazon, token, flag) ==
    IF opKnown
    THEN Outcome("error", TRUE, msg, <<>>, request, net, proxy, amazon, Null, flag)
    ELSE Outcome("threw", FALSE, Msg("TypeError: Cannot read properties of undefined"),
                 <<>>, NoRequest, net, proxy, amazon, token, flag)

\* variant of CatchBlock: the error is rethrown
CatchBlockRethrows(opKnown, msg, request, net, proxy, amazon, token, flag) ==
    Outcome("threw", FALSE, msg, <<>>, NoRequest, net, proxy, amazon, token, flag)

\* variant of CatchBlock: a failure withdraws the delegated-user id
CatchBlockForgetsProxy(opKnown, msg, request, net, proxy, amazon, token, flag) ==
    IF opKnown
    THEN Outcome("error", TRUE, msg, <<>>, request, net, Undefined, amazon, token, flag)
    ELSE Outcome("threw", FALSE, Msg("TypeError: Cannot read properties of undefined"),
                 <<>>, NoRequest, net, Undefined, amazon, token, flag)

\* the catch block: it reads op.method, and op is undefined for an unknown tool
CatchBlock(opKnown, msg, request, net, proxy, amazon, token, flag) ==
    IF opKnown
    THEN Outcome("error", TRUE, msg, <<>>, request, net, proxy, amazon, token, flag)
    ELSE Outcome("threw", FALSE, Msg("TypeError: Cannot read properties of undefined"),
                 <<>>, NoRequest, net, proxy, amazon, token, flag)

\* variant of VendorEvent: the vendor token is obtained through an authentication exchange
VendorEventAsExchange == [call |-> "authenticate", xProxy |-> Undefined]

VendorEvent == [call |-> "vendorToken"]
AuthEvent(proxy) == [call |-> "authenticate", xProxy |-> IF Truthy(proxy) THEN proxy ELSE Undefined]
RequestEvent(request) == [call |-> "request", request |-> request]

-----------------------------------------------------------------------------
(* Inputs: what a caller may send and what the upstream may answer *)

MaxArgs == 3

v_path == Str(<<"a", " ", "b">>)
v_pathSanitized == Str(<<"7">>)
v_query == Str(<<"1">>)
v_querySanitized == Str(<<"2">>)
v_bearerHeader == Str(c_Bearer \o <<"h">>)
v_vendor == Str(<<"v", "t">>)
v_body == Str(<<"{", "}">>)
v_callerToken == Str(<<"c", "t">>)
v_proxy1 == Str(<<" ", "p", "1", " ">>)
v_proxy2 == Str(<<"p", "2">>)
v_blank == Str(<<" ">>)
v_users == Str(<<"u", "s", "e", "r", "s">>)
v_json == Str(<<"j", "s", "o", "n">>)
c_nope == <<"n", "o", "p", "e">>

\* key/value pairs on offer for every tool name
CommonItems == {<<c_api_token, v_callerToken>>}

\* proxy_user_id values: two that designate a user, one blank
ProxyItems ==
    {<<c_proxy_user_id, v_proxy1>>, <<c_proxy_user_id, v_proxy2>>, <<c_proxy_user_id, v_blank>>}

\* key/value pairs that address the inputs of one compiled operation
OperationItems(op) ==
    {<<p, v_path>> : p \in Range(op.pathParams)}
    \cup {<<Sanitize(p), v_pathSanitized>> : p \in {q \in Range(op.pathParams) : Sanitize(q) /= q}}
    \cup {<<q, v_query>> : q \in Range(op.queryParams)}
    \cup {<<Sanitize(q), v_querySanitized>> :
            q \in {x \in Range(op.queryParams) : Sanitize(x) /= x}}
    \cup {<<h, IF h = c_Authorization THEN v_bearerHeader ELSE v_vendor>> :
            h \in Range(op.headerParams)}
    \cup (IF op.bodyRequired THEN {<<c_body, v_body>>} ELSE {})

\* the argument mappings built from at most MaxArgs of the items, one per key
ArgSets(items) ==
    {[k \in {it[1] : it \in S} |-> (CHOOSE it \in S : it[1] = k)[2]] :
        S \in {T \in SUBSET items :
                 /\ Cardinality(T) <= MaxArgs
                 /\ \A x, y \in T : x[1] = y[1] => x = y}}

\* proxy_user_id is offered where the table has getProxyUsers, or has nothing
OffersProxy(opMap) == c_getProxyUsers \in DOMAIN opMap \/ DOMAIN opMap = {}

\* the (tool name, arguments) pairs offered against a compiled operation table
CallInputsOf(opMap) ==
    LET shared == CommonItems \cup (IF OffersProxy(opMap) THEN ProxyItems ELSE {})
    IN UNION {{<<n, a>> : a \in ArgSets(shared \cup OperationItems(opMap[n]))} :
                n \in DOMAIN opMap}
       \cup {<<c_nope, a>> : a \in ArgSets(shared)}
       \cup (IF DOMAIN opMap = {} THEN {<<c_getProxyUsers, a>> : a \in ArgSets(shared)} ELSE {})

InputsWidgets == CallInputsOf(CompileOpMap(DocWidgets))
InputsMixed == CallInputsOf(CompileOpMap(DocMixed))
InputsAccounts == CallInputsOf(CompileOpMap(DocAccounts))
InputsCatalog == CallInputsOf(CompileOpMap(DocCatalog))
InputsPlaceholders == CallInputsOf(CompileOpMap(DocPlaceholders))
InputsCollisions == CallInputsOf(CompileOpMap(DocCollisions))
InputsPlans == CallInputsOf(CompileOpMap(DocPlans))
InputsAlternatives == CallInputsOf(CompileOpMap(DocAlternatives))
InputsBodies == CallInputsOf(CompileOpMap(DocBodies))

\* getAccount, with or without its id, on behalf of nobody or of a named user
InputsDelegated ==
    {<<c_getAccount, a>> :
        a \in ArgSets({<<n_id, v_path>>, <<c_proxy_user_id, v_proxy1>>,
                       <<c_proxy_user_id, v_proxy2>>})}

\* getV with or without its id and never with the vendor token
InputsVendor == {<<c_getV, a>> : a \in ArgSets({<<n_id, v_path>>})}
InputsNoDocument == CallInputsOf(EmptyObj)

\* the inputs offered while document d is loaded
CallInputs(d) ==
    CASE d = Null -> InputsNoDocument
      [] d = DocWidgets -> InputsWidgets
      [] d = DocMixed -> InputsMixed
      [] d = DocAccounts -> InputsAccounts
      [] d = DocCatalog -> InputsCatalog
      [] d = DocPlaceholders -> InputsPlaceholders
      [] d = DocCollisions -> InputsCollisions
      [] d = DocPlans -> InputsPlans
      [] d = DocAlternatives -> InputsAlternatives
      [] d = DocDelegated -> InputsDelegated
      [] d = DocBodies -> InputsBodies
      [] d = DocVendor -> InputsVendor

\* outcomes the upstream can give to the three network calls
FetchOutcomes == {Failed, Returned(Str(<<"a", "m", "z">>)), Returned(Undefined)}
ExchangeOutcomes == {Failed, Returned(Str(<<"t", "k">>)), Returned(Undefined)}
ReplyOutcomes(name) ==
    {Failed, Returned(v_json)} \cup (IF name = c_getProxyUsers THEN {Returned(v_users)} ELSE {})

\* what the specification URL can answer: a transport error, or a body that is
\* text (well-formed, with trailing commas, or damaged) or an already parsed
\* value; doc is the document the body stands for
Responses ==
    {[kind |-> "error", json |-> "", doc |-> Null],
     [kind |-> "string", json |-> "invalid", doc |-> DocMixed],
     [kind |-> "string", json |-> "valid", doc |-> Null],
     [kind |-> "string", json |-> "trailingCommas", doc |-> DocMixed],
     [kind |-> "object", json |-> "", doc |-> Null]}
    \cup {[kind |-> "object", json |-> "", doc |-> d] : d \in Documents}

\* the document stored at the path when the source is a filesystem path
FileDocument == DocWidgets

Credentials == {<<<<"u">>, <<"p", "w">>>>, <<<<"u">>, <<>>>>, <<<<>>, <<"p", "w">>>>}

-----------------------------------------------------------------------------
(* State machine *)

NoOutcome ==
    Outcome("none", FALSE, Msg(""), <<>>, NoRequest, <<>>, Undefined, Null, Null, "keep")

Session == [ready |-> isReady, token |-> apiToken, amazon |-> amazonAccessToken,
            proxy |-> proxyUserId]

NoRetry == [is |-> FALSE, key |-> <<>>, asked |-> <<>>]

\* the state after construction: nothing loaded, no token, handlers registered
Init ==
    /\ specSource \in {"http", "blob", "path", "unset"}
    /\ \E c \in Credentials : username = c[1] /\ password = c[2]
    /\ loadPc = "constructed"
    /\ loadOutcome = "none"
    /\ openApi = Null
    /\ operationMap = EmptyObj
    /\ generatedTools = <<>>
    /\ compiledFrom = <<>>
    /\ isReady = FALSE
    /\ apiToken = Null
    /\ amazonAccessToken = Null
    /\ proxyUserId = Undefined
    /\ mintedFor = Undefined
    /\ inflight = EmptyBag
    /\ started = 0
    /\ last = [verb |-> "none", name |-> <<>>, args |-> EmptyObj, pre |-> Session,
               tools |-> <<>>, retry |-> NoRetry, out |-> NoOutcome]

session == <<apiToken, amazonAccessToken, proxyUserId, mintedFor>>
config == <<specSource, username, password>>
tables == <<openApi, operationMap, generatedTools, compiledFrom>>
pending == <<inflight, started>>

\* run() enters loadOpenApiAndGenerateTools: up to the await of axios.get, or
\* to its return when the source is a blob: URL or no URL at all
LoadStart ==
    /\ loadPc = "constructed"
    /\ IF specSource \in {"http", "blob"}
       THEN /\ openApi' = Null
            /\ generatedTools' = <<>>
            /\ operationMap' = EmptyObj
            /\ compiledFrom' = <<>>
            /\ isReady' = (specSource = "blob")
            /\ loadPc' = IF specSource = "blob" THEN "connected" ELSE "fetching"
            /\ loadOutcome' = IF specSource = "blob" THEN "blobSkipped" ELSE "pending"
       ELSE /\ loadPc' = "connected"
            /\ loadOutcome' = "noBranch"
            /\ UNCHANGED <<tables, isReady>>
    /\ UNCHANGED <<config, session, pending, last>>

\* axios.get rejects
FetchThrows(resp) == resp.kind = "error"

\* JSON.parse(data) throws
ParseThrows(resp) == resp.kind = "string" /\ resp.json = "invalid"

\* variant of ParsedDocument: the catch blocks do not reset this.openApi
ParsedDocumentLenient(resp) == resp.doc

\* this.openApi when the try blocks are left
ParsedDocument(resp) == IF FetchThrows(resp) \/ ParseThrows(resp) THEN Null ELSE resp.doc

\* how the load of a URL ended, by the response alone
LoadOutcomeOf(resp) ==
    IF resp.kind = "error" THEN "fetchFailed"
    ELSE IF resp.kind = "string" /\ resp.json = "invalid" THEN "parseFailed"
    ELSE IF resp.doc = Null THEN "nullDocument"
    ELSE "loaded"

\* the axios.get settles: generateFromCurrentOpenApi and the two catch blocks
FetchComplete(resp) ==
    /\ loadPc = "fetching"
    /\ loadPc' = "connected"
    /\ loadOutcome' = LoadOutcomeOf(resp)
    /\ LET doc == ParsedDocument(resp) IN
       /\ openApi' = doc
       /\ generatedTools' = IF doc = Null THEN <<>> ELSE CompileTools(doc)
       /\ operationMap' = IF doc = Null THEN EmptyObj ELSE CompileOpMap(doc)
       /\ compiledFrom' = IF doc = Null THEN <<>> ELSE CompileOrigins(doc)
       /\ isReady' = IF FetchThrows(resp) \/ ParseThrows(resp) THEN TRUE
                     ELSE IF doc = Null THEN isReady
                     ELSE TRUE
    /\ UNCHANGED <<config, session, pending, last>>

\* the ListToolsRequestSchema handler's result
ListToolsResult == IF ~isReady THEN <<>> ELSE generatedTools

ListTools ==
    /\ loadPc = "connected"
    /\ last' = [verb |-> "list", name |-> <<>>, args |-> EmptyObj, pre |-> Session,
                tools |-> ListToolsResult, retry |-> NoRetry, out |-> NoOutcome]
    /\ UNCHANGED <<config, loadPc, loadOutcome, tables, isReady, session, pending>>

\* this call repeats the previous, elicited call with one more argument
RetryOf(name, args) ==
    LET added == DOMAIN args \ DOMAIN last.args IN
    IF /\ last.verb = "call"
       /\ last.out.kind = "elicit"
       /\ last.name = name
       /\ Cardinality(added) = 1
       /\ DOMAIN last.args \subseteq DOMAIN args
       /\ \A k \in DOMAIN last.args : args[k] = last.args[k]
    THEN [is |-> TRUE, key |-> CHOOSE k \in added : TRUE, asked |-> last.out.requires]
    ELSE NoRetry

\* the delegated user the cached token was issued for: the X-Proxy header of
\* the authenticate() call that stored it
MintedForAfter(minted, out) ==
    LET auths == {i \in 1..Len(out.net) : out.net[i].call = "authenticate"} IN
    IF auths /= {} /\ out.message.text /= "Authentication failed"
    THEN out.net[CHOOSE i \in auths : TRUE].xProxy
    ELSE minted

\* variant of Respond: the substituted URL is stored as the operation's path
RespondStoresPath(name, args, out) ==
    /\ last' = [verb |-> "call", name |-> name, args |-> args, pre |-> Session,
                tools |-> <<>>, retry |-> RetryOf(name, args), out |-> out]
    /\ apiToken' = out.token
    /\ amazonAccessToken' = out.amazon
    /\ proxyUserId' = out.proxy
    /\ mintedFor' = MintedForAfter(mintedFor, out)
    /\ operationMap' = IF out.flag = "keep" THEN operationMap
                       ELSE [operationMap EXCEPT ![name].useBasicAuth = out.flag,
                                                 ![name].path = out.request.url]

\* variant of Respond: the handler stores the caller's api_token as the client's
\* token (setApiToken), as makeRequest does
RespondCachesCallerToken(name, args, out) ==
    /\ last' = [verb |-> "call", name |-> name, args |-> args, pre |-> Session,
                tools |-> <<>>, retry |-> RetryOf(name, args), out |-> out]
    /\ apiToken' = IF Truthy(Get(args, c_api_token)) THEN Get(args, c_api_token)
                   ELSE out.token
    /\ amazonAccessToken' = out.amazon
    /\ proxyUserId' = out.proxy
    /\ mintedFor' = MintedForAfter(mintedFor, out)
    /\ operationMap' = IF out.flag = "keep" THEN operationMap
                       ELSE [operationMap EXCEPT ![name].useBasicAuth = out.flag]

\* the handler returns (or throws): its outcome becomes the observed response
\* and the session fields and the operation's flag take their new values
Respond(name, args, out) ==
    /\ last' = [verb |-> "call", name |-> name, args |-> args, pre |-> Session,
                tools |-> <<>>, retry |-> RetryOf(name, args), out |-> out]
    /\ apiToken' = out.token
    /\ amazonAccessToken' = out.amazon
    /\ proxyUserId' = out.proxy
    /\ mintedFor' = MintedForAfter(mintedFor, out)
    /\ operationMap' = IF out.flag = "keep" THEN operationMap
                       ELSE [operationMap EXCEPT ![name].useBasicAuth = out.flag]

\* the dispatch of a known tool from BUILD_URL on; fetch, exchange and reply
\* are the outcomes of the network calls the handler awaits
Dispatch(name, args, proxy1) ==
    LET op == operationMap[name] IN
    \E fetch \in (IF NeedsVendorToken(op, args, amazonAccessToken)
                  THEN FetchOutcomes ELSE {NotCalled}) :
    LET amazon1 == AmazonAfter(amazonAccessToken, fetch)
        net1 == IF fetch.called THEN <<VendorEvent>> ELSE <<>>
        built == BuiltRequest(op, args, amazon1)
        missing == FilteredMissing(op, args, amazon1)
    IN
    IF missing /= <<>>
    THEN Respond(name, args,
             Outcome("elicit", FALSE, Msg(""), missing, built, net1, proxy1, amazon1,
                     apiToken, "keep"))
    ELSE
    \E exchange \in (IF NeedsAuthenticate(openApi, op, args, apiToken)
                     THEN ExchangeOutcomes ELSE {NotCalled}) :
    LET token1 == ApiTokenAfter(apiToken, exchange)
        net2 == net1 \o (IF exchange.called THEN <<AuthEvent(proxy1)>> ELSE <<>>)
        err == SecurityError(openApi, op, args, apiToken, exchange, username, password)
        basic == UseBasicAuth(openApi, op)
        flag == IF WritesFlag(err) THEN FlagOf(basic) ELSE "keep"
        request == [built EXCEPT
                       !.headers = IF WritesFlag(err)
                                   THEN SecuredHeaders(openApi, op, args, token1, @)
                                   ELSE @,
                       !.auth = AuthOption(basic, err, username, password)]
    IN
    IF err /= ""
    THEN Respond(name, args,
             CatchBlock(TRUE, Msg(err), request, net2, proxy1, amazon1, token1, flag))
    ELSE
    \E reply \in ReplyOutcomes(name) :
    LET net3 == net2 \o <<RequestEvent(request)>> IN
    IF ~reply.ok
    THEN Respond(name, args,
             CatchBlock(TRUE, Msg("Request failed"), request, net3, proxy1, amazon1,
                        token1, flag))
    ELSE Respond(name, args,
             Outcome(IF name = c_getProxyUsers /\ reply.value = v_users
                     THEN "okUsers" ELSE "ok",
                     FALSE, Msg(""), <<>>, request, net3, proxy1, amazon1, token1, flag))

\* variant of CallTool: proxy_user_id is applied before the readiness guard
CallToolProxyFirst(name, args) ==
    /\ loadPc = "connected"
    /\ LET proxy1 == ProxyAfter(args, proxyUserId) IN
       IF ~isReady
       THEN Respond(name, args,
                Outcome("notReady", TRUE, Msg("Server is not ready yet"), <<>>, NoRequest,
                        <<>>, proxy1, amazonAccessToken, apiToken, "keep"))
       ELSE IF ShortCircuits(name, args)
       THEN Respond(name, args,
                Outcome("confirm", FALSE, MsgAbout("Proxy user successfully set to: ", proxy1.s),
                        <<>>, NoRequest, <<>>, proxy1, amazonAccessToken, apiToken, "keep"))
       ELSE IF name \notin DOMAIN operationMap
       THEN Respond(name, args,
                CatchBlock(FALSE, MsgAbout("Unknown tool: ", name), NoRequest, <<>>, proxy1,
                           amazonAccessToken, apiToken, "keep"))
       ELSE Dispatch(name, args, proxy1)
    /\ UNCHANGED <<config, loadPc, loadOutcome, openApi, generatedTools, compiledFrom, isReady,
                   pending>>

\* the CallToolRequestSchema handler, from the request to its response
CallTool(name, args) ==
    /\ loadPc = "connected"
    /\ LET proxy1 == ProxyAfter(args, proxyUserId) IN
       IF ~isReady
       THEN Respond(name, args,
                Outcome("notReady", TRUE, Msg("Server is not ready yet"), <<>>, NoRequest,
                        <<>>, proxyUserId, amazonAccessToken, apiToken, "keep"))
       ELSE IF ShortCircuits(name, args)
       THEN Respond(name, args,
                Outcome("confirm", FALSE, MsgAbout("Proxy user successfully set to: ", proxy1.s),
                        <<>>, NoRequest, <<>>, proxy1, amazonAccessToken, apiToken, "keep"))
       ELSE IF name \notin DOMAIN operationMap
       THEN Respond(name, args,
                CatchBlock(FALSE, MsgAbout("Unknown tool: ", name), NoRequest, <<>>, proxy1,
                           amazonAccessToken, apiToken, "keep"))
       ELSE Dispatch(name, args, proxy1)
    /\ UNCHANGED <<config, loadPc, loadOutcome, openApi, generatedTools, compiledFrom, isReady,
                   pending>>

\* a tools/call request arrives: request.params is (name, arguments)
CallToolRequest(params) == CallTool(params[1], params[2])

Next ==
    \/ LoadStart
    \/ \E resp \in Responses : FetchComplete(resp)
    \/ ListTools
    \/ \E params \in CallInputs(openApi) : CallToolRequest(params)

Spec == Init /\ [][Next]_vars

-----------------------------------------------------------------------------
(* The call handler as the event loop runs it *)

\* The handler registered for CallToolRequestSchema is an async function. It
\* runs from one await to the next, and while its promise is pending the
\* event loop is free to run another invocation of it: the handler takes no
\* lock and keeps no queue. The actions below are the handler's segments
\* between its three awaits; inflight holds the suspended invocations. A run
\* of this section starts at most MaxCalls invocations.

MaxCalls == 2

\* the tools/call requests sent to the server of this section
ConcInputs ==
    {<<c_cat, a>> : a \in {EmptyObj} \cup {Put(EmptyObj, c_proxy_user_id, v) :
                                            v \in {v_proxy1, v_proxy2}}}

\* the answers of the specification URL in this section
ConcResponses == {[kind |-> "object", json |-> "", doc |-> DocCatalog]}

Frame == UNCHANGED <<config, loadPc, loadOutcome, openApi, generatedTools, compiledFrom, isReady>>

\* the locals of an invocation that starts now
Invocation(name, args) ==
    [name |-> name, args |-> args, pre |-> Session, pc |-> "start", net |-> <<>>,
     request |-> NoRequest]

\* an invocation returns or throws: out is its response
Reply(inv, out) ==
    last' = [verb |-> "call", name |-> inv.name, args |-> inv.args, pre |-> inv.pre,
             tools |-> <<>>, retry |-> NoRetry, out |-> out]

\* the handler from the bearer token's resolution to the await of the request;
\* exchange is the outcome of authenticate() when the segment resumes from it
ToRequest(rest, inv, exchange, proxy1, amazon1) ==
    LET op == operationMap[inv.name]
        token1 == ApiTokenAfter(apiToken, exchange)
        err == SecurityError(openApi, op, inv.args, apiToken, exchange, username, password)
        basic == UseBasicAuth(openApi, op)
        flag == IF WritesFlag(err) THEN FlagOf(basic) ELSE "keep"
        request == [inv.request EXCEPT
                       !.headers = IF WritesFlag(err)
                                   THEN SecuredHeaders(openApi, op, inv.args, token1, @)
                                   ELSE @,
                       !.auth = AuthOption(basic, err, username, password)]
    IN
    /\ apiToken' = token1
    /\ mintedFor' = IF exchange.called /\ exchange.ok
                    THEN inv.net[Len(inv.net)].xProxy ELSE mintedFor
    /\ amazonAccessToken' = amazon1
    /\ proxyUserId' = proxy1
    /\ operationMap' = IF flag = "keep" THEN operationMap
                       ELSE [operationMap EXCEPT ![inv.name].useBasicAuth = flag]
    /\ IF err /= ""
       THEN /\ inflight' = rest
            /\ Reply(inv, CatchBlock(TRUE, Msg(err), request, inv.net, proxy1, amazon1,
                                     token1, flag))
       ELSE /\ inflight' = rest (+) SetToBag({[inv EXCEPT
                                                  !.pc = "request",
                                                  !.net = @ \o <<RequestEvent(request)>>,
                                                  !.request = request]})
            /\ UNCHANGED last

\* the handler from the end of the header loop to the await of authenticate()
ToAuth(rest, inv, proxy1, amazon1) ==
    LET op == operationMap[inv.name]
        built == BuiltRequest(op, inv.args, amazon1)
        missing == FilteredMissing(op, inv.args, amazon1)
        inv1 == [inv EXCEPT !.request = built]
    IN
    IF missing /= <<>>
    THEN /\ inflight' = rest
         /\ Reply(inv, Outcome("elicit", FALSE, Msg(""), missing, built, inv.net, proxy1,
                               amazon1, apiToken, "keep"))
         /\ amazonAccessToken' = amazon1
         /\ proxyUserId' = proxy1
         /\ UNCHANGED <<apiToken, mintedFor, operationMap>>
    ELSE IF NeedsAuthenticate(openApi, op, inv.args, apiToken)
    THEN /\ inflight' = rest (+) SetToBag({[inv1 EXCEPT
                                               !.pc = "auth",
                                               !.net = @ \o <<AuthEvent(proxy1)>>]})
         /\ amazonAccessToken' = amazon1
         /\ proxyUserId' = proxy1
         /\ UNCHANGED <<apiToken, mintedFor, operationMap, last>>
    ELSE ToRequest(rest, inv1, NotCalled, proxy1, amazon1)

\* a tools/call request is dispatched: the handler runs to its first await,
\* or to its response when it meets none
Begin(name, args) ==
    /\ loadPc = "connected"
    /\ started < MaxCalls
    /\ started' = started + 1
    /\ LET inv == Invocation(name, args)
           proxy1 == ProxyAfter(args, proxyUserId)
       IN
       IF ~isReady
       THEN /\ Reply(inv, Outcome("notReady", TRUE, Msg("Server is not ready yet"), <<>>,
                                  NoRequest, <<>>, proxyUserId, amazonAccessToken, apiToken,
                                  "keep"))
            /\ UNCHANGED <<session, operationMap, inflight>>
       ELSE IF ShortCircuits(name, args)
       THEN /\ Reply(inv, Outcome("confirm", FALSE,
                                  MsgAbout("Proxy user successfully set to: ", proxy1.s),
                                  <<>>, NoRequest, <<>>, proxy1, amazonAccessToken, apiToken,
                                  "keep"))
            /\ proxyUserId' = proxy1
            /\ UNCHANGED <<apiToken, amazonAccessToken, mintedFor, operationMap, inflight>>
       ELSE IF name \notin DOMAIN operationMap
       THEN /\ Reply(inv, CatchBlock(FALSE, MsgAbout("Unknown tool: ", name), NoRequest,
                                     <<>>, proxy1, amazonAccessToken, apiToken, "keep"))
            /\ proxyUserId' = proxy1
            /\ UNCHANGED <<apiToken, amazonAccessToken, mintedFor, operationMap, inflight>>
       ELSE IF NeedsVendorToken(operationMap[name], args, amazonAccessToken)
       THEN /\ inflight' = inflight (+) SetToBag({[inv EXCEPT !.pc = "vendor",
                                                              !.net = <<VendorEvent>>]})
            /\ proxyUserId' = proxy1
            /\ UNCHANGED <<apiToken, amazonAccessToken, mintedFor, operationMap, last>>
       ELSE ToAuth(inflight, inv, proxy1, amazonAccessToken)
    /\ Frame

\* a suspended invocation resumes: no invocation starts
Resumes == Frame /\ UNCHANGED started

\* getAmazonAccessToken() settles and the invocation that awaited it resumes
VendorSettles(inv, fetch) ==
    /\ BagIn(inv, inflight)
    /\ inv.pc = "vendor"
    /\ ToAuth(inflight (-) SetToBag({inv}), inv, proxyUserId,
              AmazonAfter(amazonAccessToken, fetch))
    /\ Resumes

\* authenticate() settles and the invocation that awaited it resumes
AuthSettles(inv, exchange) ==
    /\ BagIn(inv, inflight)
    /\ inv.pc = "auth"
    /\ ToRequest(inflight (-) SetToBag({inv}), inv, exchange, proxyUserId,
                 amazonAccessToken)
    /\ Resumes

\* the upstream request settles and the invocation produces its response
RequestSettles(inv, reply) ==
    /\ BagIn(inv, inflight)
    /\ inv.pc = "request"
    /\ inflight' = inflight (-) SetToBag({inv})
    /\ Reply(inv,
             IF ~reply.ok
             THEN CatchBlock(TRUE, Msg("Request failed"), inv.request, inv.net, proxyUserId,
                             amazonAccessToken, apiToken, "keep")
             ELSE Outcome(IF inv.name = c_getProxyUsers /\ reply.value = v_users
                          THEN "okUsers" ELSE "ok",
                          FALSE, Msg(""), <<>>, inv.request, inv.net, proxyUserId,
                          amazonAccessToken, apiToken, "keep"))
    /\ UNCHANGED <<session, operationMap>>
    /\ Resumes

InitConc == Init /\ specSource = "http" /\ username /= <<>> /\ password /= <<>>

NextConc ==
    \/ LoadStart
    \/ \E resp \in ConcResponses : FetchComplete(resp)
    \/ \E params \in ConcInputs : Begin(params[1], params[2])
    \/ \E inv \in BagToSet(inflight), fetch \in FetchOutcomes : VendorSettles(inv, fetch)
    \/ \E inv \in BagToSet(inflight), exchange \in ExchangeOutcomes : AuthSettles(inv, exchange)
    \/ \E inv \in BagToSet(inflight) :
          \E reply \in ReplyOutcomes(inv.name) : RequestSettles(inv, reply)

SpecConc == InitConc /\ [][NextConc]_vars

-----------------------------------------------------------------------------
(* Properties *)

\* positions of the network calls of one kind in the last invocation
EventsOf(kind) == {i \in 1..Len(last.out.net) : last.out.net[i].call = kind}

\* the URL of the i-th network call of the last invocation, an upstream request
UrlOf(i) == last.out.net[i].request.url

\* the last step was a tool call on a ready server
ReadyCall == last.verb = "call" /\ last.pre.ready

\* ... of a name the operation table has
KnownCall == ReadyCall /\ last.name \in DOMAIN operationMap

\* the arguments of the last call give no value for parameter p
Omitted(p) == p \notin DOMAIN last.args /\ Sanitize(p) \notin DOMAIN last.args

\* the messages of the errors security resolution raises
SecurityFailures ==
    {"Authentication failed", "Missing bearer token (api_token)",
     "SCANPOWER_USERNAME and SCANPOWER_PASSWORD are required for basic authentication"}

\* C1: on a ready server, a call of a name that is no key of the operation
\* table (and that the getProxyUsers short-cut does not answer) returns a
\* result flagged isError whose message contains the tool name; the handler
\* does not throw.
C1_UnknownToolIsErrorResult ==
    (ReadyCall /\ last.name \notin DOMAIN operationMap /\ last.name /= c_getProxyUsers) =>
        /\ last.out.kind = "error"
        /\ last.out.isError
        /\ last.out.message.name = last.name

\* C2: for every specification source and load outcome the readiness flag is
\* false until the load step has completed and true once it has.
C2_ReadyExactlyWhenLoaded == isReady <=> (loadPc = "connected")

\* C3: an invocation that reaches security resolution for a Bearer operation
\* with no cached token and no api_token argument performs exactly one
\* authentication exchange, before any upstream request of the operation; an
\* invocation without api_token while a token is cached performs none.
C3_OneExchangeThenNone ==
    (KnownCall /\ UsesBearer(openApi, operationMap[last.name])
       /\ c_api_token \notin DOMAIN last.args) =>
        /\ (~Truthy(last.pre.token) /\ last.out.kind \notin {"confirm", "elicit"}) =>
              /\ Cardinality(EventsOf("authenticate")) = 1
              /\ \A i \in EventsOf("authenticate"), j \in EventsOf("request") : i < j
        /\ Truthy(last.pre.token) => EventsOf("authenticate") = {}

\* C3 happens: with nothing cached and no api_token the exchange ran and the
\* upstream request followed it
C3_Witness ==
    /\ KnownCall
    /\ UsesBearer(openApi, operationMap[last.name])
    /\ c_api_token \notin DOMAIN last.args
    /\ ~Truthy(last.pre.token)
    /\ last.out.kind = "ok"
    /\ EventsOf("authenticate") /= {}
    /\ EventsOf("request") /= {}
    /\ Truthy(apiToken)

\* C4: when the first security requirement group of the operation selects
\* HTTP Basic, no upstream request of the invocation carries an Authorization
\* header that starts with "Bearer ", whatever api_token argument, cached
\* token or Authorization header argument is present.
C4_BasicNeverBearer ==
    (KnownCall /\ UseBasicAuth(openApi, operationMap[last.name])) =>
        \A i \in EventsOf("request") :
            LET headers == last.out.net[i].request.headers IN
            c_Authorization \in DOMAIN headers =>
                ~StartsWith(ToChars(headers[c_Authorization]), c_Bearer)

\* C4 happens: a Basic operation was requested upstream while a token was
\* cached and the caller passed both api_token and a Bearer Authorization
C4_Witness ==
    /\ KnownCall
    /\ UseBasicAuth(openApi, operationMap[last.name])
    /\ last.out.kind = "ok"
    /\ EventsOf("request") /= {}
    /\ Truthy(last.pre.token)
    /\ c_api_token \in DOMAIN last.args
    /\ c_Authorization \in DOMAIN last.args
    /\ StartsWith(ToChars(last.args[c_Authorization]), c_Bearer)

C6_NoLiteralPlaceholderSent ==
    \A i \in EventsOf("request") : ~Contains(UrlOf(i), <<"{">>)

\* C7: after compilation the listed tool names are pairwise distinct, the
\* operation table has exactly those keys, and every listed tool dispatches to
\* the (method, path) operation it was derived from.
C7_ToolsMatchOperationTable ==
    loadOutcome = "loaded" =>
        /\ \A i, j \in 1..Len(generatedTools) :
               generatedTools[i].name = generatedTools[j].name => i = j
        /\ DOMAIN operationMap = {generatedTools[i].name : i \in 1..Len(generatedTools)}
        /\ \A i \in 1..Len(generatedTools) :
               /\ generatedTools[i].name \in DOMAIN operationMap
               /\ operationMap[generatedTools[i].name].method = compiledFrom[i].method
               /\ operationMap[generatedTools[i].name].path = compiledFrom[i].path

\* C8: after a failed load (fetch failure, unparseable text, blob: URL) the
\* loader has returned and the server is connected, the tool list and the
\* operation table are empty, and list-tools returns zero tools.
C8_FailedLoadServesNoTools ==
    loadOutcome \in {"fetchFailed", "parseFailed", "blobSkipped"} =>
        /\ loadPc = "connected"
        /\ generatedTools = <<>>
        /\ DOMAIN operationMap = {}
        /\ ListToolsResult = <<>>
        /\ last.verb = "list" => last.tools = <<>>

\* C8 happens: the text could not be parsed and a list-tools request was served
C8_Witness ==
    /\ loadOutcome = "parseFailed"
    /\ last.verb = "list"
    /\ last.pre.ready

\* C9: with a filesystem path to a valid document as the source, after startup
\* the server is ready and lists one tool per operation of that document.
C9_FilePathLoadsTools ==
    (specSource = "path" /\ loadPc = "connected") =>
        /\ isReady
        /\ Len(generatedTools) = Len(DocOperations(FileDocument.paths))

\* C10 as stated: on a ready server, getProxyUsers with a non-empty string
\* proxy_user_id stores the trimmed value, returns a non-error confirmation
\* and makes no network call.
C10_NonEmptyProxyConfirmed ==
    (/\ ReadyCall
     /\ last.name = c_getProxyUsers
     /\ c_proxy_user_id \in DOMAIN last.args
     /\ last.args[c_proxy_user_id].t = "str"
     /\ last.args[c_proxy_user_id].s /= <<>>) =>
        /\ last.out.kind = "confirm"
        /\ ~last.out.isError
        /\ proxyUserId = Str(Trim(last.args[c_proxy_user_id].s))
        /\ last.out.net = <<>>

\* C10, amended: on a ready server, getProxyUsers with a string proxy_user_id
\* that is non-empty after trimming stores the trimmed value, returns a
\* non-error confirmation naming it and makes no network call.
C10_NonBlankProxyConfirmed ==
    (/\ ReadyCall
     /\ last.name = c_getProxyUsers
     /\ c_proxy_user_id \in DOMAIN last.args
     /\ last.args[c_proxy_user_id].t = "str"
     /\ Trim(last.args[c_proxy_user_id].s) /= <<>>) =>
        /\ last.out.kind = "confirm"
        /\ ~last.out.isError
        /\ last.out.message.name = Trim(last.args[c_proxy_user_id].s)
        /\ proxyUserId = Str(Trim(last.args[c_proxy_user_id].s))
        /\ last.out.net = <<>>

\* C10 happens: " p1 " was passed to a listed getProxyUsers and "p1" is stored
C10_Witness ==
    /\ KnownCall
    /\ last.name = c_getProxyUsers
    /\ c_proxy_user_id \in DOMAIN last.args
    /\ last.args[c_proxy_user_id] = v_proxy1
    /\ last.out.kind = "confirm"
    /\ proxyUserId = Str(<<"p", "1">>)
    /\ last.pre.proxy /= proxyUserId

\* the i-th network call of the last invocation acts for delegated user P: it
\* carries X-Proxy: P, or its bearer token is the cached one and was issued
\* for P
OnBehalfOf(i, P) ==
    LET headers == last.out.net[i].request.headers IN
    \/ /\ c_X_Proxy \in DOMAIN headers
       /\ headers[c_X_Proxy] = P
    \/ /\ c_api_token \notin DOMAIN last.args
       /\ c_Authorization \in DOMAIN headers
       /\ headers[c_Authorization] = Str(c_Bearer \o ToChars(apiToken))
       /\ mintedFor = P

\* C11: once an earlier invocation has set the proxy user to P, every request
\* a later invocation sends upstream is made on behalf of P, also when it
\* reuses a token cached before P was set or supplies its own api_token.
C11_RequestsOnBehalfOfProxy ==
    (KnownCall /\ Truthy(last.pre.proxy) /\ proxyUserId = last.pre.proxy) =>
        \A i \in EventsOf("request") : OnBehalfOf(i, proxyUserId)

\* C12: when the path template of the operation ends with a slash and every
\* path parameter is supplied, the URL the handler builds, and the URL of every
\* request it sends, ends with a slash.
C12_TrailingSlashKept ==
    (/\ KnownCall
     /\ last.out.kind /= "confirm"
     /\ EndsWith(operationMap[last.name].path, <<"/">>)
     /\ \A p \in Range(operationMap[last.name].pathParams) : ~Omitted(p)) =>
        /\ EndsWith(last.out.request.url, <<"/">>)
        /\ \A i \in EventsOf("request") : EndsWith(UrlOf(i), <<"/">>)

\* C12 happens: PUT /p/{p-id}/ was sent with the parameter substituted
C12_Witness ==
    /\ KnownCall
    /\ EndsWith(operationMap[last.name].path, <<"/">>)
    /\ operationMap[last.name].pathParams /= <<>>
    /\ \A p \in Range(operationMap[last.name].pathParams) : ~Omitted(p)
    /\ last.out.kind = "ok"
    /\ \E i \in EventsOf("request") :
           /\ EndsWith(UrlOf(i), <<"/">>)
           /\ ~Contains(UrlOf(i), <<"{">>)

\* the sanitized names of the path parameters of the i-th operation of the
\* loaded document, path-level parameters first, references resolved
PathNamesOf(i) ==
    LET e == DocOperations(openApi.paths)[i]
        raw == e.pathItem.parameters \o e.op.parameters
        resolved == [k \in 1..Len(raw) |->
                        IF raw[k].ref /= "" THEN openApi.parameters[raw[k].ref] ELSE raw[k]]
        inPath == SelectSeq(resolved, LAMBDA q : q.in = "path")
    IN [k \in 1..Len(inPath) |-> Sanitize(inPath[k].name)]

RECURSIVE ReplaceEvery(_, _, _)
ReplaceEvery(s, pat, rep) ==
    LET i == IndexOf(s, pat)
    IN IF i = 0 THEN s
       ELSE SubSeq(s, 1, i - 1) \o rep \o ReplaceEvery(SubSeq(s, i + Len(pat), Len(s)), pat, rep)

\* the value the last call supplies for parameter p, the original name first
SuppliedValue(p) ==
    IF p \in DOMAIN last.args THEN last.args[p] ELSE last.args[Sanitize(p)]

\* the template with each placeholder of a supplied parameter of ps replaced by
\* the URL-encoding of its value
RECURSIVE Filled(_, _)
Filled(url, ps) ==
    IF ps = <<>> THEN url
    ELSE Filled(IF Omitted(Head(ps)) THEN url
                ELSE ReplaceEvery(url, <<"{">> \o Head(ps) \o <<"}">>,
                                  EncodeURIComponent(ToChars(SuppliedValue(Head(ps))))),
                Tail(ps))

\* C14: the path of every request sent is the template with each placeholder
\* replaced by the URL-encoding of the value supplied under the parameter's
\* original or sanitized name (a restored trailing slash apart).
C14_PathIsEncodedTemplate ==
    KnownCall =>
        \A i \in EventsOf("request") :
            LET expected == Filled(operationMap[last.name].path,
                                   operationMap[last.name].pathParams)
            IN UrlOf(i) \in {expected, expected \o <<"/">>}

\* C15: an invocation answered by an elicitation has sent no request of the
\* operation and has performed no authentication exchange.
C15_ElicitationSendsNothing ==
    (last.verb = "call" /\ last.out.kind = "elicit") =>
        /\ EventsOf("request") = {}
        /\ EventsOf("authenticate") = {}
        /\ ~last.out.isError

\* C15 happens: a Bearer operation was elicited while no token was cached and
\* none was supplied, after a vendor-token fetch
C15_Witness ==
    /\ KnownCall
    /\ last.out.kind = "elicit"
    /\ UsesBearer(openApi, operationMap[last.name])
    /\ ~Truthy(last.pre.token)
    /\ c_api_token \notin DOMAIN last.args
    /\ EventsOf("vendorToken") /= {}
    /\ EventsOf("authenticate") = {}

\* C16: while the readiness flag is false, list-tools returns the empty list
\* and a call returns the isError not-ready result, changes no session field
\* and makes no network call.
C16_NotReadyAnswers ==
    /\ (last.verb = "list" /\ ~last.pre.ready) => last.tools = <<>>
    /\ (last.verb = "call" /\ ~last.pre.ready) =>
          /\ last.out.kind = "notReady"
          /\ last.out.isError
          /\ last.out.message.text = "Server is not ready yet"
          /\ last.out.net = <<>>
          /\ apiToken = last.pre.token
          /\ amazonAccessToken = last.pre.amazon
          /\ proxyUserId = last.pre.proxy

\* C16 happens: a call carrying a usable proxy_user_id was refused as not ready
C16_Witness ==
    /\ last.verb = "call"
    /\ ~last.pre.ready
    /\ c_proxy_user_id \in DOMAIN last.args
    /\ last.args[c_proxy_user_id] = v_proxy2
    /\ last.out.kind = "notReady"
    /\ proxyUserId = Undefined

\* C17: for a resolved operation the handler never throws; an authentication
\* exchange that yields no token, missing Basic credentials and a failed
\* request each end in the error result; and the error result is flagged
\* isError and carries the message and the attempted request (method, URL,
\* query, body, headers), which is the request sent if one was sent. The
\* server stays connected for the next call.
C17_FailuresBecomeErrorResults ==
    KnownCall =>
        LET op == operationMap[last.name] out == last.out IN
        /\ out.kind \in {"confirm", "elicit", "ok", "okUsers", "error"}
        /\ loadPc = "connected"
        /\ (/\ EventsOf("authenticate") /= {}
            /\ ~Truthy(apiToken)) => out.kind = "error"
        /\ (/\ out.kind \notin {"confirm", "elicit"}
            /\ UseBasicAuth(openApi, op)
            /\ (username = <<>> \/ password = <<>>)) =>
               (out.kind = "error" /\ EventsOf("request") = {})
        /\ (EventsOf("request") /= {} /\ out.kind \notin {"ok", "okUsers"}) => out.kind = "error"
        /\ out.kind = "error" =>
              /\ out.isError
              /\ out.message.text \in SecurityFailures \cup {"Request failed"}
              /\ out.request.method = op.method
              /\ out.request.url /= <<>>
              /\ out.request.data = Get(last.args, c_body)
              /\ \A i \in EventsOf("request") : out.net[i].request = out.request
              /\ out.message.text = "Request failed" <=> EventsOf("request") /= {}

\* C17 happens: the request of a Bearer operation failed upstream and the
\* error result carries the request with its Authorization header
C17_Witness ==
    /\ KnownCall
    /\ last.out.kind = "error"
    /\ last.out.message.text = "Request failed"
    /\ EventsOf("request") /= {}
    /\ c_Authorization \in DOMAIN last.out.request.headers

\* an operation table entry without its per-call authentication flag
WithoutFlag(entry) == [entry EXCEPT !.useBasicAuth = "undefined"]

\* a step that handles a call keeps the tables and, network calls that store a
\* token apart, the cached tokens; it sends at most one request
CallKeepsTables ==
    (last' /= last /\ last'.verb = "call") =>
        LET net == last'.out.net
            sent == {i \in 1..Len(net) : net[i].call = "request"}
        IN
        /\ Cardinality(sent) <= 1
        /\ (last'.out.kind = "error" /\ sent /= {}) =>
              /\ generatedTools' = generatedTools
              /\ DOMAIN operationMap' = DOMAIN operationMap
              /\ \A n \in DOMAIN operationMap :
                     WithoutFlag(operationMap'[n]) = WithoutFlag(operationMap[n])
              /\ IF \E i \in 1..Len(net) : net[i].call = "authenticate"
                 THEN Truthy(apiToken')
                 ELSE apiToken' = apiToken
              /\ IF \E i \in 1..Len(net) : net[i].call = "vendorToken"
                 THEN TRUE
                 ELSE amazonAccessToken' = amazonAccessToken

\* C18: an invocation sends at most one request for the operation; when that
\* request fails it is not sent again, and the tool list, the operation table
\* (method, path, parameters, body, security of every entry) and the cached
\* tokens are what they were when the request was sent.
C18_OneRequestNoRetry == [][CallKeepsTables]_vars

\* C18 happens: with a token cached, the single request of an invocation
\* failed and the token is still cached
C18_Witness ==
    /\ KnownCall
    /\ last.out.kind = "error"
    /\ last.out.message.text = "Request failed"
    /\ Cardinality(EventsOf("request")) = 1
    /\ Truthy(last.pre.token)
    /\ apiToken = last.pre.token

\* C19: under sequential invocations, once a vendor token is cached no
\* invocation fetches one again and the cached value does not change; a fetch
\* is performed only while none is cached.
C19_VendorTokenFetchedOnce ==
    last.verb = "call" =>
        /\ EventsOf("vendorToken") /= {} => ~Truthy(last.pre.amazon)
        /\ Truthy(last.pre.amazon) => amazonAccessToken = last.pre.amazon

\* C19 happens: an operation with the x-access-token header was requested with
\* the token an earlier invocation had cached, without a fetch
C19_Witness ==
    /\ KnownCall
    /\ Truthy(last.pre.amazon)
    /\ c_x_access_token \in Range(operationMap[last.name].headerParams)
    /\ Omitted(c_x_access_token)
    /\ last.out.kind = "ok"
    /\ EventsOf("vendorToken") = {}
    /\ last.out.request.headers[c_x_access_token] = last.pre.amazon

\* C20: exactly one invocation is processed at a time: from the start of an
\* invocation to its response no other invocation runs, so no two invocations
\* are ever in progress together
C20_OneInvocationAtATime == BagCardinality(inflight) <= 1

\* the Authorization header of the i-th network call, an upstream request
AuthorizationOf(i) == Get(last.out.net[i].request.headers, c_Authorization)

\* C21: for a Bearer-secured operation the Authorization header carries the
\* caller's api_token when one is given, otherwise the token that was cached
\* when the invocation began, otherwise the token the authentication exchange
\* of this invocation returned; an exchange happens only in the third case.
C21_TokenPriority ==
    (KnownCall /\ UsesBearer(openApi, operationMap[last.name])) =>
        LET given == Get(last.args, c_api_token)
            expected == IF Truthy(given) THEN given
                        ELSE IF Truthy(last.pre.token) THEN last.pre.token
                        ELSE last.out.token
        IN /\ \A i \in EventsOf("request") :
                 AuthorizationOf(i) = Str(c_Bearer \o ToChars(expected))
           /\ EventsOf("authenticate") /= {} =>
                 ~Truthy(given) /\ ~Truthy(last.pre.token)
           /\ (EventsOf("authenticate") = {} /\ ~Truthy(given)) =>
                 last.out.token = last.pre.token

\* C21 happens: a token was cached and the caller passed another api_token,
\* and the request went out under the caller's token without an exchange
C21_Witness ==
    /\ KnownCall
    /\ UsesBearer(openApi, operationMap[last.name])
    /\ Truthy(last.pre.token)
    /\ Truthy(Get(last.args, c_api_token))
    /\ Get(last.args, c_api_token) /= last.pre.token
    /\ last.out.kind = "ok"
    /\ EventsOf("authenticate") = {}
    /\ \E i \in EventsOf("request") :
           AuthorizationOf(i) = Str(c_Bearer \o ToChars(Get(last.args, c_api_token)))

\* C22: once a non-empty bearer token is cached, no later invocation changes
\* or clears it or performs an authentication exchange, whatever the
\* invocation's outcome, a failed upstream request included.
C22_CachedTokenStays ==
    (last.verb = "call" /\ Truthy(last.pre.token)) =>
        /\ apiToken = last.pre.token
        /\ EventsOf("authenticate") = {}

\* C22 happens: the request sent under the cached token failed upstream and
\* the token is still cached
C22_Witness ==
    /\ KnownCall
    /\ Truthy(last.pre.token)
    /\ c_api_token \notin DOMAIN last.args
    /\ last.out.isError
    /\ last.out.message.text = "Request failed"
    /\ \E i \in EventsOf("request") :
           AuthorizationOf(i) = Str(c_Bearer \o ToChars(last.pre.token))
    /\ apiToken = last.pre.token

\* the two errors of a Bearer operation for which no token could be resolved
TokenFailures == {"Authentication failed", "Missing bearer token (api_token)"}

\* C23: when a Bearer operation finds no token, because the authentication
\* exchange fails or returns no token, the invocation ends with an isError
\* result after exactly one exchange, sends no upstream request, and leaves
\* no usable token cached; and an exchange that yields no usable token always
\* ends the invocation with one of these two errors.
C23_NoTokenIsTerminal ==
    (KnownCall /\ UsesBearer(openApi, operationMap[last.name])) =>
        /\ last.out.message.text \in TokenFailures =>
              /\ last.out.kind = "error"
              /\ last.out.isError
              /\ Cardinality(EventsOf("authenticate")) = 1
              /\ EventsOf("request") = {}
              /\ ~Truthy(apiToken)
        /\ (EventsOf("authenticate") /= {} /\ ~Truthy(last.out.token)) =>
              last.out.message.text \in TokenFailures

\* C23 happens: the exchange answered without a token and the invocation
\* ended with the missing-token error
C23_Witness ==
    /\ KnownCall
    /\ UsesBearer(openApi, operationMap[last.name])
    /\ last.out.message.text = "Missing bearer token (api_token)"
    /\ last.out.isError
    /\ Cardinality(EventsOf("authenticate")) = 1
    /\ EventsOf("request") = {}
    /\ apiToken = Undefined

\* the configuration error of a Basic operation without static credentials
c_CredentialsRequired ==
    "SCANPOWER_USERNAME and SCANPOWER_PASSWORD are required for basic authentication"

\* C24: when Basic auth is selected for an invocation that reaches security
\* resolution and the static username or password is empty, the invocation
\* ends with the isError configuration error and sends no upstream request;
\* when both are set, its one upstream request carries exactly the static
\* username and password.
C24_BasicNeedsStaticCredentials ==
    (/\ KnownCall
     /\ UseBasicAuth(openApi, operationMap[last.name])
     /\ last.out.kind \notin {"confirm", "elicit"}) =>
        IF username = <<>> \/ password = <<>>
        THEN /\ last.out.kind = "error"
             /\ last.out.isError
             /\ last.out.message.text = c_CredentialsRequired
             /\ last.out.net = <<>>
        ELSE /\ last.out.message.text /= c_CredentialsRequired
             /\ Cardinality(EventsOf("request")) = 1
             /\ \A i \in EventsOf("request") :
                    last.out.net[i].request.auth
                        = [username |-> username, password |-> password]

\* C24 happens, first half: a Basic operation was called with an empty
\* username and the configuration error came back
C24_Witness ==
    /\ KnownCall
    /\ UseBasicAuth(openApi, operationMap[last.name])
    /\ username = <<>>
    /\ password /= <<>>
    /\ last.out.isError
    /\ last.out.message.text = c_CredentialsRequired
    /\ last.out.net = <<>>

\* the declared parameters of one location that the last call left out
OmittedOf(ps) == {p \in Range(ps) : Omitted(p)}

\* the inputs the last call lacks: path parameters without an argument,
\* required query parameters without an argument, required header parameters
\* for which NoValue holds, and body when required and absent, by sanitized
\* name and without api_token
LackingInputs(NoValue(_)) ==
    LET op == operationMap[last.name] IN
    ({Sanitize(p) : p \in OmittedOf(op.pathParams)}
     \cup {Sanitize(q) : q \in {x \in OmittedOf(op.queryParams) :
                                  DefRequired(op.paramDefs.query, x)}}
     \cup {Sanitize(h) : h \in {x \in Range(op.headerParams) :
                                  NoValue(x) /\ DefRequired(op.paramDefs.header, x)}}
     \cup (IF op.bodyRequired /\ c_body \notin DOMAIN last.args THEN {c_body} ELSE {}))
    \ {c_api_token}

\* header h has nothing to send: no argument and, for x-access-token, no
\* vendor token either
HeaderHasNoValue(h) ==
    Omitted(h) /\ (h = c_x_access_token => ~Truthy(last.out.amazon))

\* the header loop holds undefined for h: no argument and, for
\* x-access-token, a vendor token field that is undefined (a fetch answered
\* without access_token); the field's initial null is a value to the loop
HeaderIsUndefined(h) ==
    Omitted(h) /\ (h = c_x_access_token => last.out.amazon = Undefined)

\* the elicitation is returned exactly when inputs are lacking, and lists them
ElicitsExactly(lacking) ==
    (KnownCall /\ ~ShortCircuits(last.name, last.args)) =>
        /\ last.out.kind = "elicit" <=> lacking /= {}
        /\ last.out.kind = "elicit" =>
              /\ ~last.out.isError
              /\ Range(last.out.requires) = lacking

\* C25 as stated: the elicitation response is returned if and only if some
\* input is missing, and it lists exactly every declared path parameter
\* without an argument, every required query parameter without an argument,
\* every required header parameter with no value, and body when required and
\* absent, under sanitized names and never api_token.
C25_ElicitsEveryMissingInput == ElicitsExactly(LackingInputs(HeaderHasNoValue))

\* C25, amended: as stated, except that a required x-access-token header
\* without an argument counts as missing only when the vendor token field is
\* undefined; while the field holds its initial null (no fetch has answered
\* yet, or the fetch failed) the header is not listed and, if nothing else is
\* missing, no elicitation is returned.
C25_ElicitsUndefinedInputs == ElicitsExactly(LackingInputs(HeaderIsUndefined))

\* C25 happens: a call without arguments of an operation that needs a path
\* parameter, a required query parameter and a body is answered by an
\* elicitation that lists the three
C25_Witness ==
    /\ KnownCall
    /\ last.args = EmptyObj
    /\ last.out.kind = "elicit"
    /\ operationMap[last.name].bodyRequired
    /\ Cardinality(Range(last.out.requires)) > Cardinality({c_body, c_api_token})
    /\ c_body \in Range(last.out.requires)
    /\ Range(last.out.requires) = LackingInputs(HeaderIsUndefined)

\* the scheme names of the first security requirement group of the last
\* call's operation
FirstGroup ==
    LET sec == operationMap[last.name].security
    IN IF sec = <<>> THEN {} ELSE Range(sec[1])

\* scheme n is registered as an HTTP scheme of the given kind
IsHttpScheme(n, kind) ==
    /\ n \in DOMAIN openApi.securitySchemes
    /\ LowerWord(openApi.securitySchemes[n].type) \in {"http", "https"}
    /\ LowerWord(openApi.securitySchemes[n].scheme) = kind

\* scheme n is registered and is HTTP basic or has basic in its name
IsNamedBasic(n) ==
    /\ n \in DOMAIN openApi.securitySchemes
    /\ (IsHttpScheme(n, "basic") \/ Contains(ToLower(n), c_basic))

\* the authentication of the last call follows from its first requirement
\* group alone, where Basic(n) tells the schemes that select Basic: static
\* credentials only with a Basic scheme in the group, a bearer header or an
\* authentication exchange only with an HTTP bearer scheme and no Basic
\* scheme in it, and neither header nor credentials nor security error
\* with neither
AuthFromFirstGroup(Basic(_)) ==
    (KnownCall /\ last.out.kind \notin {"confirm", "elicit"}) =>
        LET basic == \E n \in FirstGroup : Basic(n)
            bearer == ~basic /\ \E n \in FirstGroup : IsHttpScheme(n, "bearer")
            declared == c_Authorization \in Range(operationMap[last.name].headerParams)
        IN /\ \A i \in EventsOf("request") :
                 /\ last.out.net[i].request.auth /= Undefined => basic
                 /\ (AuthorizationOf(i) /= Undefined /\ ~declared) => bearer
           /\ last.out.message.text = c_CredentialsRequired => basic
           /\ EventsOf("authenticate") /= {} => bearer
           /\ last.out.message.text \in TokenFailures => bearer
           /\ (basic /\ last.out.kind = "ok") =>
                 \A i \in EventsOf("request") : last.out.net[i].request.auth /= Undefined
           /\ (bearer /\ last.out.kind = "ok") =>
                 \A i \in EventsOf("request") : AuthorizationOf(i) /= Undefined

\* C26 as stated: the authentication applied to a request is determined only
\* by the first security requirement group; later groups never add a header,
\* select Basic or trigger an exchange, and a scheme of the first group that
\* is not HTTP basic or HTTP bearer, or is not registered, adds nothing and
\* raises no error.
C26_OnlyHttpSchemesOfFirstGroup == AuthFromFirstGroup(LAMBDA n : IsHttpScheme(n, "basic"))

\* C26, amended: as stated, except that a registered scheme of the first
\* group whose name contains "basic" (in any letter case) selects Basic
\* credentials whatever its type; only a scheme that is neither HTTP basic,
\* nor so named, nor HTTP bearer, or that is not registered, adds nothing.
C26_FirstGroupDecides == AuthFromFirstGroup(IsNamedBasic)

\* C26 happens: an operation whose first group holds an apiKey scheme and
\* whose second group holds the bearer scheme was requested upstream without
\* exchange, bearer header or credentials
C26_Witness ==
    /\ KnownCall
    /\ Len(operationMap[last.name].security) > Cardinality({s_key})
    /\ FirstGroup = {s_key}
    /\ s_jwt \in Range(operationMap[last.name].security[Len(operationMap[last.name].security)])
    /\ last.out.kind = "ok"
    /\ EventsOf("authenticate") = {}
    /\ \E i \in EventsOf("request") :
           /\ AuthorizationOf(i) = Undefined
           /\ last.out.net[i].request.auth = Undefined

\* C27: when the caller gives no x-access-token for an operation that
\* declares the header and the vendor-token fetch of the invocation fails
\* (the vendor token field is left as it was), the invocation proceeds: the
\* header is not recorded as a missing input, required or not, no request
\* carries a value for it, and the only errors reported are those of the
\* later stages.
C27_FailedFetchLeavesHeaderOut ==
    (/\ KnownCall
     /\ c_x_access_token \in Range(operationMap[last.name].headerParams)
     /\ Omitted(c_x_access_token)
     /\ EventsOf("vendorToken") /= {}
     /\ last.out.amazon = last.pre.amazon) =>
        /\ Sanitize(c_x_access_token) \notin Range(last.out.requires)
        /\ \A i \in EventsOf("request") :
               ~Truthy(Get(last.out.net[i].request.headers, c_x_access_token))
        /\ last.out.isError =>
               last.out.message.text \in SecurityFailures \cup {"Request failed"}

\* the proxy_user_id argument of the last call
GivenProxy == Get(last.args, c_proxy_user_id)

\* C28 as stated: on a ready server a call whose arguments hold a non-empty
\* string proxy_user_id leaves the delegated-user id at the trimmed value,
\* whatever the outcome of the call.
C28_NonEmptyProxyStored ==
    (ReadyCall /\ GivenProxy.t = "str" /\ Len(GivenProxy.s) > 0) =>
        proxyUserId = Str(Trim(GivenProxy.s))

\* C28, amended: on a ready server a call whose arguments hold a string
\* proxy_user_id that is non-empty after trimming leaves the delegated-user id
\* at the trimmed value, whatever the tool and the outcome of the call
\* (unknown tool, elicitation, authentication or upstream error, success),
\* and the authentication exchange of that call already carries it; a
\* proxy_user_id of whitespace only, or none, leaves the id as it was.
C28_NonBlankProxyStored ==
    ReadyCall =>
        IF GivenProxy.t = "str" /\ Len(Trim(GivenProxy.s)) > 0
        THEN /\ proxyUserId = Str(Trim(GivenProxy.s))
             /\ \A i \in EventsOf("authenticate") :
                    last.out.net[i].xProxy = Str(Trim(GivenProxy.s))
        ELSE proxyUserId = last.pre.proxy

\* C28 happens: a call of getAccount named a delegated user with surrounding blanks
\* while another was set, its authentication exchange failed, and the id is
\* the trimmed name
C28_Witness ==
    /\ KnownCall
    /\ last.name = c_getAccount
    /\ GivenProxy = v_proxy1
    /\ Truthy(last.pre.proxy)
    /\ last.pre.proxy /= Str(Trim(v_proxy1.s))
    /\ last.out.isError
    /\ last.out.message.text = "Authentication failed"
    /\ proxyUserId = Str(Trim(v_proxy1.s))

\* the query set the last call's arguments call for: each declared query
\* parameter that has an argument under its own or its sanitized name, keyed
\* by its own name, the argument under its own name first
SuppliedQuery ==
    LET qs == Range(operationMap[last.name].queryParams) IN
    [q \in {x \in qs : ~Omitted(x)} |->
        IF q \in DOMAIN last.args THEN last.args[q] ELSE last.args[Sanitize(q)]]

\* C29: the query set of every upstream request holds exactly the declared
\* query parameters that the caller supplied under the original or the
\* sanitized name, keyed by the original name, the value under the original
\* name taking precedence; no other argument is sent as a query parameter.
C29_QueryIsSuppliedDeclared ==
    KnownCall =>
        \A i \in EventsOf("request") :
            /\ last.out.net[i].request.params = SuppliedQuery
            /\ DOMAIN last.out.net[i].request.params
                   \subseteq Range(operationMap[last.name].queryParams)

\* C29 happens: q.r was supplied under both names with different values,
\* next to an argument that is no query parameter, and the request carries
\* q.r with the value given under the original name and nothing else
C29_Witness ==
    /\ KnownCall
    /\ n_q \in DOMAIN last.args
    /\ Sanitize(n_q) \in DOMAIN last.args
    /\ last.args[n_q] /= last.args[Sanitize(n_q)]
    /\ c_api_token \in DOMAIN last.args
    /\ \E i \in EventsOf("request") :
           /\ DOMAIN last.out.net[i].request.params = {n_q}
           /\ last.out.net[i].request.params[n_q] = last.args[n_q]

\* a step taken while the server is ready leaves it ready and keeps the tool
\* list and every entry of the operation table, its flag apart
ReadyKeepsTables ==
    isReady =>
        /\ isReady'
        /\ openApi' = openApi
        /\ generatedTools' = generatedTools
        /\ ListToolsResult' = ListToolsResult
        /\ DOMAIN operationMap' = DOMAIN operationMap
        /\ \A n \in DOMAIN operationMap :
               WithoutFlag(operationMap'[n]) = WithoutFlag(operationMap[n])

\* C30: once the server is ready, no list or call request adds, removes or
\* alters an entry of the tool list or of the operation table (method, path,
\* parameters, body requirement, security); only the per-call
\* authentication-mode flag of an entry is written.
C30_TablesReadOnlyOnceReady == [][ReadyKeepsTables]_vars

\* C30 happens: a call has written the authentication-mode flag of its
\* operation, after substituting a path parameter, and the tool list and the
\* rest of the table are still what the compiler made of the document
C30_Witness ==
    /\ KnownCall
    /\ isReady
    /\ last.out.kind = "ok"
    /\ operationMap[last.name].pathParams /= <<>>
    /\ operationMap[last.name].useBasicAuth = "false"
    /\ ListToolsResult = CompileTools(openApi)
    /\ DOMAIN operationMap = DOMAIN CompileOpMap(openApi)
    /\ \A n \in DOMAIN operationMap :
           /\ operationMap[n] /= CompileOpMap(openApi)[n] <=> n = last.name
           /\ WithoutFlag(operationMap[n]) = WithoutFlag(CompileOpMap(openApi)[n])

\* the operations of the loaded document, in compilation order
LoadedOperations == DocOperations(openApi.paths)

\* the request body of operation object op declares the JSON media type
DeclaresJson(op) == op.requestBody.present /\ "application/json" \in op.requestBody.content

\* the operation the table entry of tool name k was compiled from: the last
\* one of that name
CompiledOperation(k) ==
    LET es == LoadedOperations
        i == CHOOSE i \in 1..Len(es) :
                 /\ OperationIdOf(es[i]) = k
                 /\ \A j \in 1..Len(es) : OperationIdOf(es[j]) = k => j <= i
    IN es[i].op

\* C31: an operation is compiled as requiring a body if and only if its
\* request-body content map has the key application/json, whatever the
\* requestBody.required flag and the other media types; the tool's input
\* schema has a body property exactly in that case, and always has an
\* api_token property that is optional.
C31_BodyIffJson ==
    (isReady /\ openApi /= Null) =>
        /\ \A k \in DOMAIN operationMap :
               operationMap[k].bodyRequired <=> DeclaresJson(CompiledOperation(k))
        /\ Len(generatedTools) = Len(LoadedOperations)
        /\ \A i \in 1..Len(generatedTools) :
               LET tool == generatedTools[i] IN
               /\ c_body \in DOMAIN tool.properties <=> DeclaresJson(LoadedOperations[i].op)
               /\ c_api_token \in DOMAIN tool.properties
               /\ c_api_token \notin Range(tool.required.names)

\* what the text of the last call's error result shows of the request
ShownDetails == RequestDetails(last.name, last.args, last.out.request)

\* C32: the text of an error result shows the header values of the attempted
\* request and the arguments as they are: when a call of a Bearer operation
\* fails after its token was resolved, the text holds the whole token (the
\* caller's, the cached or the exchanged one), and a caller-supplied api_token
\* is in the text of every error result of the dispatch.
C32_ErrorTextShowsTokens ==
    (last.verb = "call" /\ last.out.kind = "error") =>
        /\ c_api_token \in DOMAIN last.args =>
               Get(ShownDetails.arguments, c_api_token) = last.args[c_api_token]
        /\ (UsesBearer(openApi, operationMap[last.name]) /\ EventsOf("request") /= {}) =>
               LET given == Get(last.args, c_api_token)
                   token == IF Truthy(given) THEN given ELSE last.out.token
               IN /\ Truthy(token)
                  /\ Get(ShownDetails.axiosConfig.headers, c_Authorization)
                         = Str(c_Bearer \o ToChars(token))
        /\ \A i \in EventsOf("request") :
               ShownDetails.axiosConfig.headers = last.out.net[i].request.headers

\* C32 happens: the token was obtained by this call's exchange, the request
\* under it failed, and the error text holds the token
C32_Witness ==
    /\ KnownCall
    /\ last.out.kind = "error"
    /\ last.out.message.text = "Request failed"
    /\ EventsOf("authenticate") /= {}
    /\ c_api_token \notin DOMAIN last.args
    /\ Truthy(apiToken)
    /\ Get(ShownDetails.axiosConfig.headers, c_Authorization)
           = Str(c_Bearer \o ToChars(apiToken))

\* C33: within one invocation every vendor-token fetch comes before the
\* authentication exchange and the exchange before the operation's request;
\* an exchange or a request happens only when the missing-input check found
\* nothing missing, and an invocation answered by the readiness guard, the
\* proxy confirmation or an elicitation has made neither.
C33_NetworkOrder ==
    last.verb = "call" =>
        /\ \A i \in 1..Len(last.out.net) :
               last.out.net[i].call \in {"vendorToken", "authenticate", "request"}
        /\ \A i \in EventsOf("vendorToken"), j \in EventsOf("authenticate") : i < j
        /\ \A i \in EventsOf("vendorToken"), k \in EventsOf("request") : i < k
        /\ \A j \in EventsOf("authenticate"), k \in EventsOf("request") : j < k
        /\ \A k \in EventsOf("request") : k = Len(last.out.net)
        /\ (EventsOf("authenticate") \cup EventsOf("request") /= {}) =>
               /\ KnownCall
               /\ LackingInputs(HeaderIsUndefined) = {}
        /\ last.out.kind \in {"notReady", "confirm", "elicit"} =>
               EventsOf("authenticate") \cup EventsOf("request") = {}

\* C33 happens: one invocation fetched the vendor token, then exchanged
\* credentials for a bearer token, then sent the request
C33_Witness ==
    /\ KnownCall
    /\ last.out.kind = "ok"
    /\ Len(last.out.net) = Cardinality({"vendorToken", "authenticate", "request"})
    /\ last.out.net[1].call = "vendorToken"
    /\ last.out.net[Len(last.out.net)].call = "request"
    /\ \E j \in EventsOf("authenticate") : 1 < j /\ j < Len(last.out.net)

\* C34: whatever invocations came before, a request carries the static
\* Basic credentials exactly when the first security group of the operation
\* of the current invocation selects Basic.
C34_BasicDecidedPerCall ==
    KnownCall =>
        \A i \in EventsOf("request") :
            LET auth == last.out.net[i].request.auth IN
            IF \E n \in FirstGroup : IsNamedBasic(n)
            THEN auth = [username |-> username, password |-> password]
            ELSE auth = Undefined

\* C34 happens: after an invocation of a Basic operation had set that
\* operation's flag, an operation without Basic was requested without
\* credentials
C34_Witness ==
    /\ KnownCall
    /\ ~\E n \in FirstGroup : IsNamedBasic(n)
    /\ last.out.kind = "ok"
    /\ \E i \in EventsOf("request") : last.out.net[i].request.auth = Undefined
    /\ operationMap[last.name].useBasicAuth = "false"
    /\ \E k \in DOMAIN operationMap : operationMap[k].useBasicAuth = "true"

\* the tokens an authentication exchange can store
ExchangedTokens == {o.value : o \in {x \in ExchangeOutcomes : x.ok}}

\* C35: an invocation that supplies an api_token leaves the cached session
\* token as it was; the cached token only ever comes from an authentication
\* exchange; and a Bearer-secured invocation without api_token sends the token
\* cached when it began or the one its own exchange returned.
C35_CallerTokenStaysLocal ==
    /\ (last.verb = "call" /\ Truthy(Get(last.args, c_api_token))) =>
           /\ apiToken = last.pre.token
           /\ EventsOf("authenticate") = {}
    /\ Truthy(apiToken) => apiToken \in ExchangedTokens
    /\ (KnownCall /\ UsesBearer(openApi, operationMap[last.name])
          /\ ~Truthy(Get(last.args, c_api_token))) =>
           \A i \in EventsOf("request") :
               IF Truthy(last.pre.token)
               THEN AuthorizationOf(i) = Str(c_Bearer \o ToChars(last.pre.token))
               ELSE /\ EventsOf("authenticate") /= {}
                    /\ last.out.token \in ExchangedTokens
                    /\ AuthorizationOf(i) = Str(c_Bearer \o ToChars(last.out.token))

\* C35 happens: another Bearer operation had passed the security block while
\* no token was cached, which only a caller-supplied api_token allows; this
\* invocation, without api_token, exchanged and sent the exchanged token
C35_Witness ==
    /\ KnownCall
    /\ UsesBearer(openApi, operationMap[last.name])
    /\ c_api_token \notin DOMAIN last.args
    /\ ~Truthy(last.pre.token)
    /\ \E k \in DOMAIN operationMap \ {last.name} :
           /\ UsesBearer(openApi, operationMap[k])
           /\ operationMap[k].useBasicAuth = "false"
    /\ EventsOf("authenticate") /= {}
    /\ last.out.kind = "ok"
    /\ \E i \in EventsOf("request") :
           /\ AuthorizationOf(i) = Str(c_Bearer \o ToChars(apiToken))
           /\ AuthorizationOf(i) /= Str(c_Bearer \o ToChars(v_callerToken))

\* C36: an invocation without proxy_user_id that ends in an elicitation
\* response has made no network request and leaves the cached bearer token,
\* the cached vendor token and the delegated-user id as they were.
C36_ElicitationTouchesNothing ==
    (/\ last.verb = "call"
     /\ c_proxy_user_id \notin DOMAIN last.args
     /\ last.out.kind = "elicit") =>
        /\ last.out.net = <<>>
        /\ apiToken = last.pre.token
        /\ amazonAccessToken = last.pre.amazon
        /\ proxyUserId = last.pre.proxy

\* the invocations in flight that await authenticate(), with their multiplicity
AwaitingExchange ==
    [inv \in {x \in BagToSet(inflight) : x.pc = "auth"} |-> CopiesIn(inv, inflight)]

\* the X-Proxy values of the authentication exchanges an invocation has begun
ExchangeProxies(net) ==
    {net[i].xProxy : i \in {j \in 1..Len(net) : net[j].call = "authenticate"}}

\* C37: with invocations interleaving at their network suspension points, an
\* invocation that supplies proxy_user_id P performs its authentication
\* exchange with X-Proxy P, and no two authentication exchanges are performed
\* while no token is cached.
C37_ExchangeForOwnUserOnce ==
    /\ \A inv \in BagToSet(inflight) :
           ProxyArgGiven(inv.args) =>
               ExchangeProxies(inv.net) \subseteq {ProxyAfter(inv.args, Undefined)}
    /\ (last.verb = "call" /\ ProxyArgGiven(last.args)) =>
           ExchangeProxies(last.out.net) \subseteq {ProxyAfter(last.args, Undefined)}
    /\ BagCardinality(AwaitingExchange) <= 1

====
